---------------------------- MODULE Spec2Model ----------------------------
(***************************************************************************)
(* A model of trojan-go's relay engine, accept queues, redirector, layer   *)
(* shutdown and policy router.                                             *)
(*                                                                         *)
(* The module holds several specifications over one set of variables; each *)
(* specification moves the variables of one subsystem and leaves the       *)
(* others at their initial value:                                          *)
(*   SpecRoute       tunnel/router/client.go   Client.Route                *)
(*   SpecRedirector  redirector                Redirect, worker            *)
(*   SpecClose       Close of the proxy and of each layer                  *)
(*   SpecRelay       proxy/proxy.go            relayConnLoop               *)
(*   SpecSimplesocks simplesocks server        acceptLoop, AcceptConn      *)
(*   SpecHttp        tunnel/http/server.go     acceptLoop, AcceptConn      *)
(*   SpecRouterCalls tunnel/router/client.go   concurrent Route, DialConn  *)
(*   SpecNewClient   tunnel/router/client.go   NewClient (rule parsing)    *)
(*   SpecMain        main.go, proxy/proxy.go   main, Option.Handle, Run    *)
(*   SpecPacketRelay proxy/proxy.go            relayPacketLoop             *)
(*   SpecLogger      log/slogadapter           levels, derived adapters    *)
(*   SpecLoggerRace  log/slogadapter           overlapping calls           *)
(*   SpecLogOutput   log/slogadapter           SetOutput, FallbackWriter   *)
(*   SpecConfigLog   proxy/proxy.go            logLevelFromConfig          *)
(*   SpecRegistry    package log               RegisterLogger, globals     *)
(*   SpecDialPacket  tunnel/router/client.go   Client.DialPacket           *)
(*   SpecTLSDial     tunnel/tls/client.go      Client.DialConn             *)
(*   SpecMatchDomain tunnel/router/client.go   matchDomain, geosite rules  *)
(*   SpecLevelMap    log/slogadapter           level and format mappings   *)
(***************************************************************************)
EXTENDS Integers, Sequences, FiniteSets, TLC

VARIABLES
    \* ---- router (tunnel/router/client.go)
    client,      \* the router Client: domains, cidrs, defaultPolicy, domainStrategy
    routeCall,   \* the last Route call: its address, the DNS answer, what it did
    \* ---- redirector
    rdCtxDone,   \* r.ctx is cancelled
    rdChan,      \* r.redirectionChan: how many requests it holds, by kind
    rdWorker,    \* the worker goroutine: "run" or "exited"
    rdCallers,   \* the goroutines calling Redirect
    rdHandlers,  \* the handle goroutines the worker started
    \* ---- Close of the proxy and of the layers
    clConfig,    \* tls has a key logger; the prometheus server is enabled
    clCalls,     \* how often Close was called on each layer
    clCancelled, \* the layers whose context is cancelled
    clBelow,     \* how often Close (Shutdown) reached each object below a layer
    \* ---- proxy stream relay (proxy/proxy.go)
    pxCtxDone,   \* p.ctx is cancelled
    pxReady,     \* the connections the source has ready for AcceptConn
    pxLoop,      \* the relay loop goroutine of the source: "accept" or "exited"
    pxRelays,    \* the relay worker goroutines the loop started
    \* ---- simplesocks server under the proxy's relay loops
    ssCtxDone,   \* the root context, and with it s.ctx, is cancelled
    ssUnderlay,  \* s.underlay: closed, and the connections it has ready
    ssLoop,      \* acceptLoop: "accept", "sendConn", "sendPacket", "exited"
    ssConnChan,  \* len(s.connChan)
    ssPacketChan,\* len(s.packetChan)
    ssRelayConn, \* the proxy's relayConnLoop goroutine on this source
    ssRelayPacket, \* the proxy's relayPacketLoop goroutine on this source
    ssLast,      \* the connection acceptLoop took last: its header, where it is
    \* ---- http server under the proxy's relay loop
    htCtxDone,   \* the root context, and with it s.ctx, is cancelled
    htUnderlay,  \* s.underlay: closed, and the connections it has ready
    htLoop,      \* acceptLoop: "accept" or "exited"
    htTasks,     \* the per-connection goroutines acceptLoop started
    htConnChan,  \* len(s.connChan)
    htRelayConn, \* the proxy's relayConnLoop goroutine on this source
    \* ---- concurrent callers of the router Client
    rtCalls,     \* the goroutines calling Route or DialConn on the Client
    \* ---- router construction (NewClient)
    ncConfig,    \* cfg.Router: the rule strings of the configuration
    ncResult,    \* what NewClient returned: nothing yet, an error, or a client
    \* ---- the process: main and the -config handler (Option.Handle)
    mnConfig,    \* the -config path, which files can be read, whether the proxy builds
    mnProc,      \* where Handle stands, whether Run returned, the exit code
    \* ---- proxy datagram relay (proxy/proxy.go, relayPacketLoop)
    pkCtxDone,   \* p.ctx is cancelled
    pkWorker,    \* the relay worker goroutine of one accepted packet connection
    pkCopy,      \* the two copyPacket goroutines, by direction
    pkRead,      \* by direction: the datagrams ReadWithMetadata has returned
    pkWritten,   \* by direction: the datagrams WriteWithMetadata has delivered
    \* ---- slog adapter (log/slogadapter)
    lgLevelVar,  \* s.levelVar, shared with the derived adapters
    lgLogLevel,  \* s.logLevel of the root adapter
    lgFormat,    \* s.format
    lgOutput,    \* s.output
    lgPrimary,   \* s.fallbackWriter.primary
    lgFallback,  \* s.fallbackWriter.fallback
    lgCache,     \* s.enabledCache of each adapter
    lgDerived,   \* the adapters made by WithAttrs and WithGroup
    lgSinks,     \* by writer: the records it has received, in order
    lgReports,   \* the calls of errorHandler.HandleError
    lgErrorHandler, \* s.errorHandler, the handler of the FallbackWriter
    lgLast,      \* the call that returned last, and what it did
    lgOps,       \* the calls made so far
    lgExited,    \* os.Exit was called
    lgThreads,   \* the goroutines inside a call on the root adapter
    \* ---- the default slog logger NewProxyFromConfigData installs
    cfLogLevel,  \* cfg.LogLevel
    cfHandler,   \* the default handler: installed or not, and its Level
    cfEmitted,   \* by severity: a record of it was tried, and emitted or not
    \* ---- the registry of package log: RegisterLogger and the global functions
    rgLogger,    \* var logger: the logger the global functions call
    rgRegistered, \* the arguments of the RegisterLogger calls, in order
    rgLevel,     \* by logger: its log level (a logger that has one)
    rgOutput,    \* the writer of the registered SlogAdapter
    rgSinks,     \* by writer: the loggers that wrote a record to it, in order
    rgLast,      \* the global call that returned last, and what it did
    rgOps,       \* the calls made so far
    rgExited,    \* os.Exit was called
    \* ---- router Client.DialPacket
    dpCalls,     \* by caller: where its DialPacket is and what it holds
    \* ---- tls Client.DialConn
    tlCalls,     \* by caller: where its DialConn is and what it holds
    \* ---- matchDomain over the rule lists a geosite table gives
    mdCall,      \* the list, the target and, once called, the result
    \* ---- the level and format conversions of the slog adapter
    lvCall       \* the level and the format name, and what they convert to

routerVars == <<client, routeCall>>
redirVars == <<rdCtxDone, rdChan, rdWorker, rdCallers, rdHandlers>>

closeVars == <<clConfig, clCalls, clCancelled, clBelow>>

relayVars == <<pxCtxDone, pxReady, pxLoop, pxRelays>>

ssVars == <<ssCtxDone, ssUnderlay, ssLoop, ssConnChan, ssPacketChan,
            ssRelayConn, ssRelayPacket, ssLast>>
htVars == <<htCtxDone, htUnderlay, htLoop, htTasks, htConnChan, htRelayConn>>
rtVars == <<rtCalls>>
ncVars == <<ncConfig, ncResult>>
mnVars == <<mnConfig, mnProc>>
pkVars == <<pkCtxDone, pkWorker, pkCopy, pkRead, pkWritten>>
lgVars == <<lgLevelVar, lgLogLevel, lgFormat, lgOutput, lgPrimary, lgFallback,
            lgCache, lgDerived, lgSinks, lgReports, lgLast, lgOps, lgExited,
            lgThreads, lgErrorHandler>>

\* the variables of the subsystems below the datagram relay in this module
cfVars == <<cfLogLevel, cfHandler, cfEmitted>>
rgVars == <<rgLogger, rgRegistered, rgLevel, rgOutput, rgSinks, rgLast, rgOps,
            rgExited>>
dpVars == <<dpCalls>>
tlVars == <<tlCalls>>
mdVars == <<mdCall>>
lvVars == <<lvCall>>

\* the variables of the subsystems below the default logger in this module
finalVars == <<rgVars, dpVars, tlVars, mdVars, lvVars>>
laterVars == <<lgVars, cfVars, finalVars>>

\* the variables of the subsystems below the http server in this module
restVars == <<rtVars, ncVars, mnVars, pkVars, laterVars>>

vars == <<client, routeCall, rdCtxDone, rdChan, rdWorker, rdCallers, rdHandlers,
          clConfig, clCalls, clCancelled, clBelow,
          pxCtxDone, pxReady, pxLoop, pxRelays,
          ssCtxDone, ssUnderlay, ssLoop, ssConnChan, ssPacketChan,
          ssRelayConn, ssRelayPacket, ssLast,
          htCtxDone, htUnderlay, htLoop, htTasks, htConnChan, htRelayConn,
          rtCalls, ncConfig, ncResult, mnConfig, mnProc,
          pkCtxDone, pkWorker, pkCopy, pkRead, pkWritten,
          lgLevelVar, lgLogLevel, lgFormat, lgOutput, lgPrimary, lgFallback,
          lgCache, lgDerived, lgSinks, lgReports, lgLast, lgOps, lgExited,
          lgThreads, lgErrorHandler, cfLogLevel, cfHandler, cfEmitted,
          rgLogger, rgRegistered, rgLevel, rgOutput, rgSinks, rgLast, rgOps,
          rgExited, dpCalls, tlCalls, mdCall, lvCall>>

-----------------------------------------------------------------------------
(***************************************************************************)
(* Router: tunnel/router/client.go                                         *)
(***************************************************************************)

\* policies (client.go:22-26) and domain strategies (client.go:28-32)
Block == 0
Bypass == 1
Proxy == 2

AsIs == 0
IPIfNonMatch == 1
IPOnDemand == 2

\* "no policy matched": the loops over Block..Proxy fell through
NoMatch == 0 - 1

Policies == {Block, Bypass, Proxy}
Strategies == {AsIs, IPIfNonMatch, IPOnDemand}

\* ---- strings are sequences of one-character strings

\* strings.HasSuffix(s, suffix)
HasSuffix(s, suffix) ==
    /\ Len(suffix) <= Len(s)
    /\ SubSeq(s, Len(s) - Len(suffix) + 1, Len(s)) = suffix

\* the 0-based positions at which substr occurs in s
Occurrences(s, substr) ==
    {i \in 0..(Len(s) - Len(substr)) : SubSeq(s, i + 1, i + Len(substr)) = substr}

\* strings.Index(s, substr): the first occurrence, -1 when there is none
Index(s, substr) ==
    IF Occurrences(s, substr) = {} THEN 0 - 1
    ELSE CHOOSE i \in Occurrences(s, substr) :
             \A j \in Occurrences(s, substr) : i <= j

\* strings.Contains(s, substr)
Contains(s, substr) == Index(s, substr) >= 0

\* regexp.Match over the patterns the model draws: literals, "." (any one
\* character) and "(" (an unclosed group: the pattern does not compile).
RegexCompiles(pattern) == \A i \in 1..Len(pattern) : pattern[i] # "("

RegexMatchesAt(pattern, s, i) ==
    \A k \in 1..Len(pattern) : pattern[k] = "." \/ pattern[k] = s[i + k]

\* an unanchored match: the pattern matches some substring of s
RegexMatch(pattern, s) ==
    \E i \in 0..(Len(s) - Len(pattern)) : RegexMatchesAt(pattern, s, i)

\* one iteration of matchDomain's loop: "match" (return true), "abort"
\* (return false: the regex does not compile) or "next" (go on)
DomainRuleStep(d, target) ==
    CASE d.type = "Full" ->
           IF d.value = target THEN "match" ELSE "next"
      [] d.type = "Domain" ->
           IF HasSuffix(target, d.value)
           THEN LET idx == Index(target, d.value)
                IN  IF idx = 0 \/ target[idx] = "." THEN "match" ELSE "next"
           ELSE "next"
      [] d.type = "Plain" ->
           IF Contains(target, d.value) THEN "match" ELSE "next"
      [] d.type = "Regex" ->
           IF ~RegexCompiles(d.value) THEN "abort"
           ELSE IF RegexMatch(d.value, target) THEN "match" ELSE "next"
      [] OTHER -> "next"

RECURSIVE matchDomainFrom(_, _, _)
matchDomainFrom(list, target, i) ==
    IF i > Len(list) THEN FALSE
    ELSE LET step == DomainRuleStep(list[i], target)
         IN  CASE step = "match" -> TRUE
               [] step = "abort" -> FALSE
               [] OTHER -> matchDomainFrom(list, target, i + 1)

\* matchDomain(list, target)
matchDomain(list, target) == matchDomainFrom(list, target, 1)

\* ---- IP addresses: a family and the address bits, most significant first

\* the address length of a family, in bits (net.IPv4len, net.IPv6len, scaled)
V4Bits == 2
V6Bits == 3

IPBits(fam) == IF fam = "v4" THEN V4Bits ELSE V6Bits

\* a changed CIDRContains: the two family tests (continue) are left out
CIDRContainsAnyFamily(c, target) ==
    IF c.prefix > IPBits(target.fam) THEN FALSE
    ELSE \A k \in 1..c.prefix : c.ip.bits[k] = target.bits[k]

\* one iteration of matchIP's loop: does CIDR c contain target
CIDRContains(c, target) ==
    IF c.ip.fam # target.fam THEN FALSE           \* family mismatch: continue
    ELSE IF c.prefix > IPBits(target.fam) THEN FALSE  \* CIDRMask is nil
    ELSE \A k \in 1..c.prefix : c.ip.bits[k] = target.bits[k]

\* matchIP(list, target)
matchIP(list, target) == \E i \in 1..Len(list) : CIDRContains(list[i], target)

\* newIPAddress(address): the resolver's answer for the name, "fail" or an IP
NoIP == [fam |-> "none", bits |-> <<>>]

newIPAddress(dns) ==
    IF dns = NoIP THEN [err |-> TRUE, ip |-> NoIP]
    ELSE [err |-> FALSE, ip |-> dns]

\* for i := Block; i <= Proxy; i++ { if matchIP(c.cidrs[i], ip) { return i } }
FirstCIDRPolicy(c, ip) ==
    IF matchIP(c.cidrs[Block], ip) THEN Block
    ELSE IF matchIP(c.cidrs[Bypass], ip) THEN Bypass
    ELSE IF matchIP(c.cidrs[Proxy], ip) THEN Proxy
    ELSE NoMatch

\* a changed FirstDomainPolicy: the loop runs from Proxy down to Block
FirstDomainPolicyReversed(c, name) ==
    IF matchDomain(c.domains[Proxy], name) THEN Proxy
    ELSE IF matchDomain(c.domains[Bypass], name) THEN Bypass
    ELSE IF matchDomain(c.domains[Block], name) THEN Block
    ELSE NoMatch

\* for i := Block; i <= Proxy; i++ { if matchDomain(c.domains[i], name) { return i } }
FirstDomainPolicy(c, name) ==
    IF matchDomain(c.domains[Block], name) THEN Block
    ELSE IF matchDomain(c.domains[Bypass], name) THEN Bypass
    ELSE IF matchDomain(c.domains[Proxy], name) THEN Proxy
    ELSE NoMatch

\* What a Route call did: the policy it returned, how often it resolved the
\* name, and whether it looked at the CIDR lists and at the domain lists.
RouteResult(policy, resolves, cidr, domain) ==
    [policy |-> policy, resolves |-> resolves,
     cidrConsulted |-> cidr, domainConsulted |-> domain]

\* a changed RouteDomainRules: the IPIfNonMatch block tests for IPOnDemand,
\* so that an unmatched name under IPIfNonMatch is never resolved
RouteDomainRulesNoResolve(c, address, dns, resolvesBefore, cidrBefore) ==
    LET byDomain == FirstDomainPolicy(c, address.name)
    IN  IF byDomain # NoMatch
        THEN RouteResult(byDomain, resolvesBefore, cidrBefore, TRUE)
        ELSE RouteResult(c.defaultPolicy, resolvesBefore, cidrBefore, TRUE)

\* a changed RouteDomainRules: the second resolution block runs under every
\* strategy but AsIs, so that IPOnDemand resolves the name a second time
RouteDomainRulesResolvesAgain(c, address, dns, resolvesBefore, cidrBefore) ==
    LET byDomain == FirstDomainPolicy(c, address.name)
    IN  IF byDomain # NoMatch
        THEN RouteResult(byDomain, resolvesBefore, cidrBefore, TRUE)
        ELSE IF c.domainStrategy # AsIs
        THEN LET resolved == newIPAddress(dns)
                 byIP == IF resolved.err THEN NoMatch
                         ELSE FirstCIDRPolicy(c, resolved.ip)
             IN  IF byIP # NoMatch
                 THEN RouteResult(byIP, resolvesBefore + 1, TRUE, TRUE)
                 ELSE RouteResult(c.defaultPolicy, resolvesBefore + 1,
                                  cidrBefore \/ ~resolved.err, TRUE)
        ELSE RouteResult(c.defaultPolicy, resolvesBefore, cidrBefore, TRUE)

\* the domain branch of Route after the IPOnDemand block (client.go:145-159)
RouteDomainRules(c, address, dns, resolvesBefore, cidrBefore) ==
    LET byDomain == FirstDomainPolicy(c, address.name)
    IN  IF byDomain # NoMatch
        THEN RouteResult(byDomain, resolvesBefore, cidrBefore, TRUE)
        ELSE IF c.domainStrategy = IPIfNonMatch
        THEN LET resolved == newIPAddress(dns)
                 byIP == IF resolved.err THEN NoMatch
                         ELSE FirstCIDRPolicy(c, resolved.ip)
             IN  IF byIP # NoMatch
                 THEN RouteResult(byIP, resolvesBefore + 1, TRUE, TRUE)
                 ELSE RouteResult(c.defaultPolicy, resolvesBefore + 1,
                                  cidrBefore \/ ~resolved.err, TRUE)
        ELSE RouteResult(c.defaultPolicy, resolvesBefore, cidrBefore, TRUE)

\* a changed Route: the first block tests for IPIfNonMatch instead of
\* IPOnDemand, so that IPOnDemand starts with the domain rules
RouteOnDemandSkipped(c, address, dns) ==
    IF address.type = "DomainName"
    THEN RouteDomainRules(c, address, dns, 0, FALSE)
    ELSE LET byIP == FirstCIDRPolicy(c, address.ip)
         IN  RouteResult(IF byIP # NoMatch THEN byIP ELSE c.defaultPolicy,
                         0, TRUE, FALSE)

\* Client.Route(address); dns is what the resolver answers for the name
Route(c, address, dns) ==
    IF address.type = "DomainName"
    THEN IF c.domainStrategy = IPOnDemand
         THEN LET resolved == newIPAddress(dns)
                  byIP == IF resolved.err THEN NoMatch
                          ELSE FirstCIDRPolicy(c, resolved.ip)
              IN  IF byIP # NoMatch
                  THEN RouteResult(byIP, 1, TRUE, FALSE)
                  ELSE RouteDomainRules(c, address, dns, 1, ~resolved.err)
         ELSE RouteDomainRules(c, address, dns, 0, FALSE)
    ELSE LET byIP == FirstCIDRPolicy(c, address.ip)
         IN  RouteResult(IF byIP # NoMatch THEN byIP ELSE c.defaultPolicy,
                         0, TRUE, FALSE)

\* ---- the rule sets and destinations the router is checked over

\* the longest rule list of one policy class
MaxRules == 1

Name_a   == <<"a">>
Name_ba  == <<"b", ".", "a">>
Name_ab  == <<"a", "b">>
Name_c   == <<"c">>
Name_aba == <<"a", "b", "a">>
Name_baa == <<"b", "a", ".", "a">>

TargetNames == {Name_a, Name_ba, Name_ab, Name_c, Name_aba, Name_baa}

DomainRules ==
    { [type |-> "Domain", value |-> Name_a],
      [type |-> "Plain",  value |-> <<"b">>],
      [type |-> "Regex",  value |-> <<"a", ".">>] }

\* the address of a family whose leading bits are lead, the rest zero
IPOf(fam, lead) ==
    [fam |-> fam,
     bits |-> [k \in 1..IPBits(fam) |-> IF k <= Len(lead) THEN lead[k] ELSE 0]]

IP4_in  == IPOf("v4", <<1>>)
IP4_out == IPOf("v4", <<0>>)
IP6_out == IPOf("v6", <<1>>)

TargetIPs == {IP4_in, IP4_out, IP6_out}

CIDRRules == { [ip |-> IP4_in, prefix |-> 1], [ip |-> IP6_out, prefix |-> 1] }

SeqsUpTo(S, n) == UNION {[1..k -> S] : k \in 0..n}

DomainLists == SeqsUpTo(DomainRules, MaxRules)
CIDRLists == SeqsUpTo(CIDRRules, 1)

DomainAddress(name) == [type |-> "DomainName", name |-> name, ip |-> NoIP]
IPAddress(ip) ==
    [type |-> IF ip.fam = "v4" THEN "IPv4" ELSE "IPv6", name |-> <<>>, ip |-> ip]

Addresses ==
    {DomainAddress(n) : n \in TargetNames} \cup {IPAddress(ip) : ip \in TargetIPs}

\* what the resolver may answer: no such host, or one of the addresses
DNSAnswers == {NoIP, IP4_in, IP4_out}

NoCall ==
    [done |-> FALSE, address |-> DomainAddress(<<>>), dns |-> NoIP,
     result |-> RouteResult(NoMatch, 0, FALSE, FALSE)]

\* NewClient: the rule lists, the default policy and the strategy are fixed
\* at construction (client.go:278-306)
InitRouter ==
    /\ client \in [domains : [Policies -> DomainLists],
                   cidrs : [Policies -> CIDRLists],
                   defaultPolicy : Policies,
                   domainStrategy : Strategies]
    /\ routeCall = NoCall

\* the router at rest, for the specifications of the other subsystems
RouterIdle ==
    /\ client = [domains |-> [p \in Policies |-> <<>>],
                 cidrs |-> [p \in Policies |-> <<>>],
                 defaultPolicy |-> Proxy, domainStrategy |-> AsIs]
    /\ routeCall = NoCall

\* a caller routes one address; the resolver answers dns when asked
RouteCall ==
    \E address \in Addresses, dns \in DNSAnswers :
        /\ ~routeCall.done
        /\ address.type # "DomainName" => dns = NoIP
        /\ routeCall' = [done |-> TRUE, address |-> address, dns |-> dns,
                         result |-> Route(client, address, dns)]
        /\ UNCHANGED <<client, redirVars, closeVars, relayVars, ssVars, htVars, restVars>>

\* the caller takes the policy; the next call may start
RouteReturn ==
    /\ routeCall.done
    /\ routeCall' = NoCall
    /\ UNCHANGED <<client, redirVars, closeVars, relayVars, ssVars, htVars, restVars>>

NextRoute == RouteCall \/ RouteReturn

-----------------------------------------------------------------------------
(***************************************************************************)
(* Redirector                                                              *)
(***************************************************************************)

\* make(chan *Redirection, 64)
RedirectionChanCap == 64

\* the goroutines that may be inside Redirect at once
MaxCallers == 2
\* the handle goroutines that may be alive at once
MaxHandlers == 1
\* the requests with a nil InboundConn that may be queued at once
MaxNilQueued == 1

Callers == 1..MaxCallers
Handlers == 1..MaxHandlers

\* the kinds of request: InboundConn is a connection, or nil
RequestKinds == {"conn", "nil"}

\* The channel holds its requests in order; the worker treats every request
\* alone, so the channel is kept as the number of requests of each kind.
ChanLen(ch) == ch.conn + ch.nil

IdleCaller == [pc |-> "idle", kind |-> "none"]
FreeHandler ==
    [pc |-> "free", inbound |-> "none", outbound |-> "none",
     copies |-> <<"none", "none">>, errChan |-> 0]

\* NewRedirector: an empty channel and a running worker
InitRedirector ==
    /\ rdCtxDone = FALSE
    /\ rdChan = [conn |-> 0, nil |-> 0]
    /\ rdWorker = "run"
    /\ rdCallers = [i \in Callers |-> IdleCaller]
    /\ rdHandlers = [h \in Handlers |-> FreeHandler]

RedirectorIdle == InitRedirector

\* a goroutine calls Redirect(redirection) and reaches the select
RedirectCall(i) ==
    \E kind \in RequestKinds :
        /\ rdCallers[i].pc = "idle"
        /\ kind = "nil" =>
               rdChan.nil + Cardinality({j \in Callers :
                   rdCallers[j].pc = "select" /\ rdCallers[j].kind = "nil"})
                 < MaxNilQueued
        /\ rdCallers' = [rdCallers EXCEPT ![i] = [pc |-> "select", kind |-> kind]]
        /\ UNCHANGED <<rdCtxDone, rdChan, rdWorker, rdHandlers, routerVars, closeVars, relayVars, ssVars, htVars, restVars>>

\* a changed RedirectSend: a full channel makes Redirect give the request up
\* and return (a default case in the select)
RedirectSendOrDrop(i) ==
    /\ rdCallers[i].pc = "select"
    /\ IF ChanLen(rdChan) < RedirectionChanCap
       THEN /\ rdChan' = [rdChan EXCEPT ![rdCallers[i].kind] = @ + 1]
            /\ rdCallers' = [rdCallers EXCEPT ![i] = IdleCaller]
       ELSE /\ rdCallers' = [rdCallers EXCEPT ![i].pc = "returned"]
            /\ UNCHANGED rdChan
    /\ UNCHANGED <<rdCtxDone, rdWorker, rdHandlers, routerVars, closeVars, relayVars, ssVars, htVars, restVars>>

\* case r.redirectionChan <- redirection: the channel has room
RedirectSend(i) ==
    /\ rdCallers[i].pc = "select"
    /\ ChanLen(rdChan) < RedirectionChanCap
    /\ rdChan' = [rdChan EXCEPT ![rdCallers[i].kind] = @ + 1]
    /\ rdCallers' = [rdCallers EXCEPT ![i] = IdleCaller]
    /\ UNCHANGED <<rdCtxDone, rdWorker, rdHandlers, routerVars, closeVars, relayVars, ssVars, htVars, restVars>>

\* case <-r.ctx.Done(): Redirect returns; the request is neither queued nor
\* is its InboundConn closed
RedirectCancelled(i) ==
    /\ rdCallers[i].pc = "select"
    /\ rdCtxDone
    /\ rdCallers' = [rdCallers EXCEPT ![i].pc = "returned"]
    /\ UNCHANGED <<rdCtxDone, rdChan, rdWorker, rdHandlers, routerVars, closeVars, relayVars, ssVars, htVars, restVars>>

\* worker: case redirection := <-r.redirectionChan: go handle(redirection)
WorkerTake(h) ==
    \E kind \in RequestKinds :
        /\ rdWorker = "run"
        /\ rdChan[kind] > 0
        /\ rdHandlers[h].pc = "free"
        /\ rdChan' = [rdChan EXCEPT ![kind] = @ - 1]
        /\ rdHandlers' = [rdHandlers EXCEPT ![h] =
               [FreeHandler EXCEPT !.pc = "start",
                    !.inbound = IF kind = "conn" THEN "open" ELSE "nil"]]
        /\ UNCHANGED <<rdCtxDone, rdWorker, rdCallers, routerVars, closeVars, relayVars, ssVars, htVars, restVars>>

\* worker: case <-r.ctx.Done(): return
WorkerExit ==
    /\ rdWorker = "run"
    /\ rdCtxDone
    /\ rdWorker' = "exited"
    /\ UNCHANGED <<rdCtxDone, rdChan, rdCallers, rdHandlers, routerVars, closeVars, relayVars, ssVars, htVars, restVars>>

\* handle: a nil InboundConn returns at once
HandleNilInbound(h) ==
    /\ rdHandlers[h].pc = "start"
    /\ rdHandlers[h].inbound = "nil"
    /\ rdHandlers' = [rdHandlers EXCEPT ![h].pc = "returned"]
    /\ UNCHANGED <<rdCtxDone, rdChan, rdWorker, rdCallers, routerVars, closeVars, relayVars, ssVars, htVars, restVars>>

\* handle: defer InboundConn.Close(); a nil RedirectTo, or a Dial that fails,
\* returns and the deferred Close runs
HandleNoOutbound(h) ==
    /\ rdHandlers[h].pc = "start"
    /\ rdHandlers[h].inbound = "open"
    /\ rdHandlers' = [rdHandlers EXCEPT ![h].pc = "returned",
                                        ![h].inbound = "closed"]
    /\ UNCHANGED <<rdCtxDone, rdChan, rdWorker, rdCallers, routerVars, closeVars, relayVars, ssVars, htVars, restVars>>

\* handle: Dial succeeds; defer outboundConn.Close(); the two copyConn
\* goroutines start and handle reaches its select
HandleDialed(h) ==
    /\ rdHandlers[h].pc = "start"
    /\ rdHandlers[h].inbound = "open"
    /\ rdHandlers' = [rdHandlers EXCEPT ![h].pc = "select",
                                        ![h].outbound = "open",
                                        ![h].copies = <<"run", "run">>]
    /\ UNCHANGED <<rdCtxDone, rdChan, rdWorker, rdCallers, routerVars, closeVars, relayVars, ssVars, htVars, restVars>>

\* copyConn: io.Copy returns (EOF, an error, or a closed connection) and the
\* result is sent to errChan, which has room for both results
RedirectCopyReturn(h, t) ==
    /\ rdHandlers[h].copies[t] = "run"
    /\ rdHandlers[h].errChan < 2
    /\ rdHandlers' = [rdHandlers EXCEPT ![h].copies[t] = "done",
                                        ![h].errChan = @ + 1]
    /\ UNCHANGED <<rdCtxDone, rdChan, rdWorker, rdCallers, routerVars, closeVars, relayVars, ssVars, htVars, restVars>>

\* handle: case err := <-errChan; the deferred Closes run
HandleCopyEnded(h) ==
    /\ rdHandlers[h].pc = "select"
    /\ rdHandlers[h].errChan > 0
    /\ rdHandlers' = [rdHandlers EXCEPT ![h].pc = "returned",
                                        ![h].errChan = @ - 1,
                                        ![h].inbound = "closed",
                                        ![h].outbound = "closed"]
    /\ UNCHANGED <<rdCtxDone, rdChan, rdWorker, rdCallers, routerVars, closeVars, relayVars, ssVars, htVars, restVars>>

\* handle: case <-r.ctx.Done(): return; the deferred Closes run
HandleCancelled(h) ==
    /\ rdHandlers[h].pc = "select"
    /\ rdCtxDone
    /\ rdHandlers' = [rdHandlers EXCEPT ![h].pc = "returned",
                                        ![h].inbound = "closed",
                                        ![h].outbound = "closed"]
    /\ UNCHANGED <<rdCtxDone, rdChan, rdWorker, rdCallers, routerVars, closeVars, relayVars, ssVars, htVars, restVars>>

\* the handle goroutine and its copy goroutines are gone
HandleGone(h) ==
    /\ rdHandlers[h].pc = "returned"
    /\ \A t \in 1..2 : rdHandlers[h].copies[t] # "run"
    /\ rdHandlers' = [rdHandlers EXCEPT ![h] = FreeHandler]
    /\ UNCHANGED <<rdCtxDone, rdChan, rdWorker, rdCallers, routerVars, closeVars, relayVars, ssVars, htVars, restVars>>

\* the context given to NewRedirector is cancelled
RedirectorCancel ==
    /\ ~rdCtxDone
    /\ rdCtxDone' = TRUE
    /\ UNCHANGED <<rdChan, rdWorker, rdCallers, rdHandlers, routerVars, closeVars, relayVars, ssVars, htVars, restVars>>

NextRedirector ==
    \/ \E i \in Callers : RedirectCall(i) \/ RedirectSend(i) \/ RedirectCancelled(i)
    \/ \E h \in Handlers : WorkerTake(h)
    \/ WorkerExit
    \/ \E h \in Handlers :
          \/ HandleNilInbound(h) \/ HandleNoOutbound(h) \/ HandleDialed(h)
          \/ HandleCopyEnded(h) \/ HandleCancelled(h) \/ HandleGone(h)
    \/ \E h \in Handlers, t \in 1..2 : RedirectCopyReturn(h, t)
    \/ RedirectorCancel

-----------------------------------------------------------------------------
(***************************************************************************)
(* Close of the proxy and of the layers                                    *)
(***************************************************************************)

\* the Close calls made on one layer
MaxCloseCalls == 2

Layers == {"proxy", "http", "simplesocks", "router", "tls", "prometheus"}

\* what a layer's Close closes: its underlay, the proxy's sink and sources,
\* the tls key logger, the prometheus http.Server (Shutdown)
Below ==
    {"proxy.sink", "proxy.sources", "http.underlay", "simplesocks.underlay",
     "router.underlay", "tls.keyLogger", "tls.underlay", "prometheus.server"}

InitClose ==
    /\ clConfig \in [keyLogger : BOOLEAN, metrics : BOOLEAN]
    /\ clCalls = [l \in Layers |-> 0]
    /\ clCancelled = {}
    /\ clBelow = [b \in Below |-> 0]

CloseIdle ==
    /\ clConfig = [keyLogger |-> FALSE, metrics |-> FALSE]
    /\ clCalls = [l \in Layers |-> 0]
    /\ clCancelled = {}
    /\ clBelow = [b \in Below |-> 0]

\* clBelow after one more Close (Shutdown) of each object in S
CloseReaches(S) ==
    [b \in Below |-> IF b \in S THEN clBelow[b] + 1 ELSE clBelow[b]]

\* Proxy.Close: p.cancel(); p.sink.Close(); every source.Close()
ProxyClose ==
    /\ clCalls["proxy"] < MaxCloseCalls
    /\ clCalls' = [clCalls EXCEPT !["proxy"] = @ + 1]
    /\ clCancelled' = clCancelled \cup {"proxy"}
    /\ clBelow' = CloseReaches({"proxy.sink", "proxy.sources"})
    /\ UNCHANGED <<clConfig, routerVars, redirVars, relayVars, ssVars, htVars, restVars>>

\* http Server.Close: s.cancel(); return s.underlay.Close()
HttpServerClose ==
    /\ clCalls["http"] < MaxCloseCalls
    /\ clCalls' = [clCalls EXCEPT !["http"] = @ + 1]
    /\ clCancelled' = clCancelled \cup {"http"}
    /\ clBelow' = CloseReaches({"http.underlay"})
    /\ UNCHANGED <<clConfig, routerVars, redirVars, relayVars, ssVars, htVars, restVars>>

\* simplesocks Server.Close: s.cancel(); return s.underlay.Close()
SimplesocksServerClose ==
    /\ clCalls["simplesocks"] < MaxCloseCalls
    /\ clCalls' = [clCalls EXCEPT !["simplesocks"] = @ + 1]
    /\ clCancelled' = clCancelled \cup {"simplesocks"}
    /\ clBelow' = CloseReaches({"simplesocks.underlay"})
    /\ UNCHANGED <<clConfig, routerVars, redirVars, relayVars, ssVars, htVars, restVars>>

\* a changed RouterClientClose: c.cancel() only, the underlay is left open
RouterClientCloseKeepsUnderlay ==
    /\ clCalls["router"] < MaxCloseCalls
    /\ clCalls' = [clCalls EXCEPT !["router"] = @ + 1]
    /\ clCancelled' = clCancelled \cup {"router"}
    /\ UNCHANGED <<clBelow, clConfig, routerVars, redirVars, relayVars, ssVars, htVars, restVars>>

\* router Client.Close: c.cancel(); return c.underlay.Close()
RouterClientClose ==
    /\ clCalls["router"] < MaxCloseCalls
    /\ clCalls' = [clCalls EXCEPT !["router"] = @ + 1]
    /\ clCancelled' = clCancelled \cup {"router"}
    /\ clBelow' = CloseReaches({"router.underlay"})
    /\ UNCHANGED <<clConfig, routerVars, redirVars, relayVars, ssVars, htVars, restVars>>

\* tls Client.Close: c.keyLogger.Close() when there is one; c.underlay.Close()
TLSClientClose ==
    /\ clCalls["tls"] < MaxCloseCalls
    /\ clCalls' = [clCalls EXCEPT !["tls"] = @ + 1]
    /\ clBelow' = CloseReaches(IF clConfig.keyLogger
                               THEN {"tls.keyLogger", "tls.underlay"}
                               ELSE {"tls.underlay"})
    /\ UNCHANGED <<clCancelled, clConfig, routerVars, redirVars, relayVars, ssVars, htVars, restVars>>

\* prometheus Server.Close: nothing for a nil server (metrics disabled);
\* else s.cancel() and s.server.Shutdown(ctx)
PrometheusServerClose ==
    /\ clCalls["prometheus"] < MaxCloseCalls
    /\ clCalls' = [clCalls EXCEPT !["prometheus"] = @ + 1]
    /\ IF clConfig.metrics
       THEN /\ clCancelled' = clCancelled \cup {"prometheus"}
            /\ clBelow' = CloseReaches({"prometheus.server"})
       ELSE UNCHANGED <<clCancelled, clBelow>>
    /\ UNCHANGED <<clConfig, routerVars, redirVars, relayVars, ssVars, htVars, restVars>>

NextClose ==
    \/ ProxyClose
    \/ HttpServerClose
    \/ SimplesocksServerClose
    \/ RouterClientClose
    \/ TLSClientClose
    \/ PrometheusServerClose

-----------------------------------------------------------------------------
(***************************************************************************)
(* Proxy stream relay: proxy/proxy.go, relayConnLoop                       *)
(***************************************************************************)

\* the relay worker goroutines that may be alive at once
MaxRelays == 2
\* the connections the source may hold ready at once
MaxReady == 1

Relays == 1..MaxRelays

\* a changed errChan: make(chan error, 1)
RelayErrChanCapOne == 2 - 1

\* errChan := make(chan error, 2)
RelayErrChanCap == 2

FreeRelay ==
    [pc |-> "free", inbound |-> "none", outbound |-> "none",
     copies |-> <<"none", "none">>, errChan |-> 0]

InitRelay ==
    /\ pxCtxDone = FALSE
    /\ pxReady = 0
    /\ pxLoop = "accept"
    /\ pxRelays = [w \in Relays |-> FreeRelay]

RelayIdle == InitRelay

\* a client connects: the source has one more connection for AcceptConn
SourceReady ==
    /\ ~pxCtxDone
    /\ pxReady < MaxReady
    /\ pxReady' = pxReady + 1
    /\ UNCHANGED <<pxCtxDone, pxLoop, pxRelays, routerVars, redirVars, closeVars, ssVars, htVars, restVars>>

\* inbound, err := source.AcceptConn(nil) returns a connection;
\* go func(inbound) { defer inbound.Close() ...
RelayAccept(w) ==
    /\ pxLoop = "accept"
    /\ pxReady > 0
    /\ pxRelays[w].pc = "free"
    /\ pxReady' = pxReady - 1
    /\ pxRelays' = [pxRelays EXCEPT ![w] =
           [FreeRelay EXCEPT !.pc = "dial", !.inbound = "open"]]
    /\ UNCHANGED <<pxCtxDone, pxLoop, routerVars, redirVars, closeVars, ssVars, htVars, restVars>>

\* a changed RelayAcceptFailed: any error of AcceptConn ends the loop
RelayAcceptFailedExits ==
    /\ pxLoop = "accept"
    /\ pxLoop' = "exited"
    /\ UNCHANGED <<pxCtxDone, pxReady, pxRelays, routerVars, redirVars, closeVars, ssVars, htVars, restVars>>

\* source.AcceptConn returns an error: the loop returns when p.ctx is done,
\* else it logs the error and goes on
RelayAcceptFailed ==
    /\ pxLoop = "accept"
    /\ pxLoop' = IF pxCtxDone THEN "exited" ELSE "accept"
    /\ UNCHANGED <<pxCtxDone, pxReady, pxRelays, routerVars, redirVars, closeVars, ssVars, htVars, restVars>>

\* a changed RelayDialFailed: the worker returns without closing inbound
RelayDialFailedLeavesInbound(w) ==
    /\ pxRelays[w].pc = "dial"
    /\ pxRelays' = [pxRelays EXCEPT ![w].pc = "returned"]
    /\ UNCHANGED <<pxCtxDone, pxReady, pxLoop, routerVars, redirVars, closeVars, ssVars, htVars, restVars>>

\* p.sink.DialConn fails: return; the deferred inbound.Close() runs
RelayDialFailed(w) ==
    /\ pxRelays[w].pc = "dial"
    /\ pxRelays' = [pxRelays EXCEPT ![w].pc = "returned",
                                    ![w].inbound = "closed"]
    /\ UNCHANGED <<pxCtxDone, pxReady, pxLoop, routerVars, redirVars, closeVars, ssVars, htVars, restVars>>

\* p.sink.DialConn succeeds: defer outbound.Close(); the two copyConn
\* goroutines start and the worker reaches its select
RelayDialed(w) ==
    /\ pxRelays[w].pc = "dial"
    /\ pxRelays' = [pxRelays EXCEPT ![w].pc = "select",
                                    ![w].outbound = "open",
                                    ![w].copies = <<"run", "run">>]
    /\ UNCHANGED <<pxCtxDone, pxReady, pxLoop, routerVars, redirVars, closeVars, ssVars, htVars, restVars>>

\* copyConn: io.Copy returns on EOF or on an error of a live connection;
\* errChan <- err (errChan has room for both results)
RelayCopyEnds(w, t) ==
    /\ pxRelays[w].copies[t] = "run"
    /\ pxRelays[w].inbound = "open" /\ pxRelays[w].outbound = "open"
    /\ pxRelays[w].errChan < RelayErrChanCap
    /\ pxRelays' = [pxRelays EXCEPT ![w].copies[t] = "done",
                                    ![w].errChan = @ + 1]
    /\ UNCHANGED <<pxCtxDone, pxReady, pxLoop, routerVars, redirVars, closeVars, ssVars, htVars, restVars>>

\* copyConn: a connection of the pair is closed, so io.Copy's Read or Write
\* fails and it returns; errChan <- err
RelayCopyUnblocked(w, t) ==
    /\ pxRelays[w].copies[t] = "run"
    /\ pxRelays[w].inbound = "closed" \/ pxRelays[w].outbound = "closed"
    /\ pxRelays[w].errChan < RelayErrChanCap
    /\ pxRelays' = [pxRelays EXCEPT ![w].copies[t] = "done",
                                    ![w].errChan = @ + 1]
    /\ UNCHANGED <<pxCtxDone, pxReady, pxLoop, routerVars, redirVars, closeVars, ssVars, htVars, restVars>>

\* worker: case err = <-errChan; the deferred Closes run
RelayCopyEnded(w) ==
    /\ pxRelays[w].pc = "select"
    /\ pxRelays[w].errChan > 0
    /\ pxRelays' = [pxRelays EXCEPT ![w].pc = "returned",
                                    ![w].errChan = @ - 1,
                                    ![w].inbound = "closed",
                                    ![w].outbound = "closed"]
    /\ UNCHANGED <<pxCtxDone, pxReady, pxLoop, routerVars, redirVars, closeVars, ssVars, htVars, restVars>>

\* a changed RelayCancelled: the worker returns on cancellation without the
\* Close of outbound (a Close that is not deferred)
RelayCancelledLeavesOutbound(w) ==
    /\ pxRelays[w].pc = "select"
    /\ pxCtxDone
    /\ pxRelays' = [pxRelays EXCEPT ![w].pc = "returned",
                                    ![w].inbound = "closed"]
    /\ UNCHANGED <<pxCtxDone, pxReady, pxLoop, routerVars, redirVars, closeVars, ssVars, htVars, restVars>>

\* worker: case <-p.ctx.Done(): return; the deferred Closes run
RelayCancelled(w) ==
    /\ pxRelays[w].pc = "select"
    /\ pxCtxDone
    /\ pxRelays' = [pxRelays EXCEPT ![w].pc = "returned",
                                    ![w].inbound = "closed",
                                    ![w].outbound = "closed"]
    /\ UNCHANGED <<pxCtxDone, pxReady, pxLoop, routerVars, redirVars, closeVars, ssVars, htVars, restVars>>

\* the worker goroutine and its copy goroutines are gone
RelayGone(w) ==
    /\ pxRelays[w].pc = "returned"
    /\ \A t \in 1..2 : pxRelays[w].copies[t] # "run"
    /\ pxRelays' = [pxRelays EXCEPT ![w] = FreeRelay]
    /\ UNCHANGED <<pxCtxDone, pxReady, pxLoop, routerVars, redirVars, closeVars, ssVars, htVars, restVars>>

\* Proxy.Close: p.cancel()
ProxyCancel ==
    /\ ~pxCtxDone
    /\ pxCtxDone' = TRUE
    /\ UNCHANGED <<pxReady, pxLoop, pxRelays, routerVars, redirVars, closeVars, ssVars, htVars, restVars>>

NextRelay ==
    \/ SourceReady
    \/ \E w \in Relays : RelayAccept(w)
    \/ RelayAcceptFailed
    \/ \E w \in Relays : RelayDialFailed(w) \/ RelayDialed(w)
    \/ \E w \in Relays, t \in 1..2 : RelayCopyEnds(w, t) \/ RelayCopyUnblocked(w, t)
    \/ \E w \in Relays : RelayCopyEnded(w) \/ RelayCancelled(w) \/ RelayGone(w)
    \/ ProxyCancel

\* A goroutine that can run does run: the worker's select takes a ready
\* case, a copy whose connection is closed returns, a finished goroutine ends.
RelayFairness ==
    /\ \A w \in Relays : WF_vars(RelayCopyEnded(w) \/ RelayCancelled(w))
    /\ \A w \in Relays, t \in 1..2 : WF_vars(RelayCopyUnblocked(w, t))
    /\ \A w \in Relays : WF_vars(RelayGone(w))

-----------------------------------------------------------------------------
(***************************************************************************)
(* Simplesocks server: acceptLoop, AcceptConn, AcceptPacket, and the       *)
(* proxy's two relay loops that take from it                               *)
(***************************************************************************)

\* make(chan tunnel.Conn, 32), make(chan tunnel.PacketConn, 32)
SimplesocksChanCap == 32

\* the connections an underlay may hold ready at once
MaxPending == 1

ssOthers == <<routerVars, redirVars, closeVars, relayVars, htVars, restVars>>

\* the header of a connection the underlay returns: the two commands, a
\* command that is neither, and a header metadata.ReadFrom cannot read
Headers == {"Connect", "Associate", "unknown", "unreadable"}

\* acceptLoop has taken no connection yet
NoAccepted == [header |-> "none", place |-> "none"]

InitSimplesocks ==
    /\ ssLast = NoAccepted
    /\ ssCtxDone = FALSE
    /\ ssUnderlay = [closed |-> FALSE, pending |-> 0]
    /\ ssLoop = "accept"
    /\ ssConnChan = 0
    /\ ssPacketChan = 0
    /\ ssRelayConn = "accept"
    /\ ssRelayPacket = "accept"

SimplesocksIdle == InitSimplesocks

\* a peer opens a stream: the underlay has one more connection ready
SSUnderlayReady ==
    /\ ~ssUnderlay.closed
    /\ ssUnderlay.pending < MaxPending
    /\ ssUnderlay' = [ssUnderlay EXCEPT !.pending = @ + 1]
    /\ UNCHANGED <<ssCtxDone, ssLoop, ssConnChan, ssPacketChan,
                   ssRelayConn, ssRelayPacket, ssLast, ssOthers>>

\* acceptLoop: the underlay returns a connection; its header does not parse
\* or its command is unknown: conn.Close(), next iteration
SSAcceptRejected(header) ==
    /\ ssLoop = "accept"
    /\ ssUnderlay.pending > 0
    /\ ssUnderlay' = [ssUnderlay EXCEPT !.pending = @ - 1]
    /\ ssLast' = [header |-> header, place |-> "closed"]
    /\ UNCHANGED <<ssCtxDone, ssLoop, ssConnChan, ssPacketChan,
                   ssRelayConn, ssRelayPacket, ssOthers>>

\* acceptLoop: the underlay returns a connection with a Connect header; the
\* loop reaches s.connChan <- &Conn{...}
SSAcceptConnect ==
    /\ ssLoop = "accept"
    /\ ssUnderlay.pending > 0
    /\ ssUnderlay' = [ssUnderlay EXCEPT !.pending = @ - 1]
    /\ ssLoop' = "sendConn"
    /\ ssLast' = [header |-> "Connect", place |-> "acceptLoop"]
    /\ UNCHANGED <<ssCtxDone, ssConnChan, ssPacketChan,
                   ssRelayConn, ssRelayPacket, ssOthers>>

\* a changed SSAcceptAssociate: the connection goes the way of a Connect
SSAcceptAssociateAsConnect ==
    /\ ssLoop = "accept"
    /\ ssUnderlay.pending > 0
    /\ ssUnderlay' = [ssUnderlay EXCEPT !.pending = @ - 1]
    /\ ssLoop' = "sendConn"
    /\ ssLast' = [header |-> "Associate", place |-> "acceptLoop"]
    /\ UNCHANGED <<ssCtxDone, ssConnChan, ssPacketChan,
                   ssRelayConn, ssRelayPacket, ssOthers>>

\* acceptLoop: the underlay returns a connection with an Associate header;
\* the loop reaches s.packetChan <- &PacketConn{...}
SSAcceptAssociate ==
    /\ ssLoop = "accept"
    /\ ssUnderlay.pending > 0
    /\ ssUnderlay' = [ssUnderlay EXCEPT !.pending = @ - 1]
    /\ ssLoop' = "sendPacket"
    /\ ssLast' = [header |-> "Associate", place |-> "acceptLoop"]
    /\ UNCHANGED <<ssCtxDone, ssConnChan, ssPacketChan,
                   ssRelayConn, ssRelayPacket, ssOthers>>

\* acceptLoop: the underlay returns an error; the loop returns when s.ctx is
\* done, else it goes on
SSAcceptFailed ==
    /\ ssLoop = "accept"
    /\ ssLoop' = IF ssCtxDone THEN "exited" ELSE "accept"
    /\ UNCHANGED <<ssCtxDone, ssUnderlay, ssConnChan, ssPacketChan,
                   ssRelayConn, ssRelayPacket, ssLast, ssOthers>>

\* acceptLoop: s.connChan <- conn completes: the channel has room
SSSendConn ==
    /\ ssLoop = "sendConn"
    /\ ssConnChan < SimplesocksChanCap
    /\ ssConnChan' = ssConnChan + 1
    /\ ssLoop' = "accept"
    /\ ssLast' = [ssLast EXCEPT !.place = "connChan"]
    /\ UNCHANGED <<ssCtxDone, ssUnderlay, ssPacketChan,
                   ssRelayConn, ssRelayPacket, ssOthers>>

\* acceptLoop: s.packetChan <- conn completes: the channel has room
SSSendPacket ==
    /\ ssLoop = "sendPacket"
    /\ ssPacketChan < SimplesocksChanCap
    /\ ssPacketChan' = ssPacketChan + 1
    /\ ssLoop' = "accept"
    /\ ssLast' = [ssLast EXCEPT !.place = "packetChan"]
    /\ UNCHANGED <<ssCtxDone, ssUnderlay, ssConnChan,
                   ssRelayConn, ssRelayPacket, ssOthers>>

\* relayConnLoop: source.AcceptConn takes case conn := <-s.connChan; the
\* loop starts a relay worker for it
SSRelayTakesConn ==
    /\ ssRelayConn = "accept"
    /\ ssConnChan > 0
    /\ ssConnChan' = ssConnChan - 1
    /\ UNCHANGED <<ssCtxDone, ssUnderlay, ssLoop, ssPacketChan,
                   ssRelayConn, ssRelayPacket, ssLast, ssOthers>>

\* relayConnLoop: source.AcceptConn takes case <-s.ctx.Done() and returns an
\* error; p.ctx is done: the loop returns
SSRelayConnExits ==
    /\ ssRelayConn = "accept"
    /\ ssCtxDone
    /\ ssRelayConn' = "exited"
    /\ UNCHANGED <<ssCtxDone, ssUnderlay, ssLoop, ssConnChan, ssPacketChan,
                   ssRelayPacket, ssLast, ssOthers>>

\* relayPacketLoop: source.AcceptPacket takes case packetConn := <-s.packetChan
SSRelayTakesPacket ==
    /\ ssRelayPacket = "accept"
    /\ ssPacketChan > 0
    /\ ssPacketChan' = ssPacketChan - 1
    /\ UNCHANGED <<ssCtxDone, ssUnderlay, ssLoop, ssConnChan,
                   ssRelayConn, ssRelayPacket, ssLast, ssOthers>>

\* relayPacketLoop: source.AcceptPacket returns an error on <-s.ctx.Done()
SSRelayPacketExits ==
    /\ ssRelayPacket = "accept"
    /\ ssCtxDone
    /\ ssRelayPacket' = "exited"
    /\ UNCHANGED <<ssCtxDone, ssUnderlay, ssLoop, ssConnChan, ssPacketChan,
                   ssRelayConn, ssLast, ssOthers>>

\* Proxy.Close: p.cancel() cancels the root context and s.ctx below it
SSProxyCancel ==
    /\ ~ssCtxDone
    /\ ssCtxDone' = TRUE
    /\ UNCHANGED <<ssUnderlay, ssLoop, ssConnChan, ssPacketChan,
                   ssRelayConn, ssRelayPacket, ssLast, ssOthers>>

\* Proxy.Close: source.Close(), that is s.cancel() and s.underlay.Close()
SSProxyClosesSource ==
    /\ ssCtxDone
    /\ ~ssUnderlay.closed
    /\ ssUnderlay' = [ssUnderlay EXCEPT !.closed = TRUE]
    /\ UNCHANGED <<ssCtxDone, ssLoop, ssConnChan, ssPacketChan,
                   ssRelayConn, ssRelayPacket, ssLast, ssOthers>>

NextSimplesocks ==
    \/ SSUnderlayReady
    \/ \E header \in {"unknown", "unreadable"} : SSAcceptRejected(header)
    \/ SSAcceptConnect
    \/ SSAcceptAssociate
    \/ SSAcceptFailed
    \/ SSSendConn
    \/ SSSendPacket
    \/ SSRelayTakesConn
    \/ SSRelayConnExits
    \/ SSRelayTakesPacket
    \/ SSRelayPacketExits
    \/ SSProxyCancel
    \/ SSProxyClosesSource

-----------------------------------------------------------------------------
(***************************************************************************)
(* HTTP server: tunnel/http/server.go, acceptLoop and AcceptConn, and the  *)
(* proxy's relayConnLoop that takes from it                                *)
(***************************************************************************)

\* make(chan tunnel.Conn, 32)
HttpConnChanCap == 32

\* the per-connection goroutines of acceptLoop that may be alive at once
MaxHttpTasks == 2

HttpTasks == 1..MaxHttpTasks

htOthers == <<routerVars, redirVars, closeVars, relayVars, ssVars, restVars>>

\* the values of req.Host in a CONNECT request: two that
\* tunnel.NewAddressFromAddr accepts and one it rejects
ConnectHosts == {"h1:443", "h2:80", "bad"}

\* tunnel.NewAddressFromAddr("tcp", req.Host): an error, or the address of
\* that host and port
NewAddressFromAddr(host) ==
    IF host = "bad" THEN [err |-> TRUE, address |-> "none"]
    ELSE [err |-> FALSE, address |-> host]

\* the values of req.Host in the other requests: one with a port and one
\* without, for which tunnel.NewAddressFromAddr fails
RequestHosts == {"h1:443", "bad"}

\* tunnel.NewAddressFromHostPort("tcp", req.Host, 80): the address of that
\* host and the given port
NewAddressFromHostPort(host, port) ==
    IF host = "bad" /\ port = 80 THEN "bad:80" ELSE "none"

\* the Metadata address of an OtherConn: that of req.Host, and of req.Host
\* with port 80 when req.Host does not parse
OtherAddress(host) ==
    IF NewAddressFromAddr(host).err THEN NewAddressFromHostPort(host, 80)
    ELSE NewAddressFromAddr(host).address

\* the requests one client stream may carry
MaxRequests == 2

\* a task: where it stands, its client connection, the request it read, if
\* the 200 response was written, and the Metadata address of the connection
\* it sent to s.connChan; for the other methods also the number of the
\* request on the stream, how often the request was sent to s.connChan, and
\* the state of its OtherConn
FreeHttpTask ==
    [pc |-> "free", conn |-> "none", method |-> "none", host |-> "none",
     wrote200 |-> FALSE, metadata |-> "none",
     reqNo |-> 0, sends |-> 0, tunnel |-> "none"]

InitHttp ==
    /\ htCtxDone = FALSE
    /\ htUnderlay = [closed |-> FALSE, pending |-> 0]
    /\ htLoop = "accept"
    /\ htTasks = [k \in HttpTasks |-> FreeHttpTask]
    /\ htConnChan = 0
    /\ htRelayConn = "accept"

HttpIdle == InitHttp

\* a client connects: the underlay has one more connection ready
HTUnderlayReady ==
    /\ ~htUnderlay.closed
    /\ htUnderlay.pending < MaxPending
    /\ htUnderlay' = [htUnderlay EXCEPT !.pending = @ + 1]
    /\ UNCHANGED <<htCtxDone, htLoop, htTasks, htConnChan, htRelayConn, htOthers>>

\* acceptLoop: the underlay returns a connection; go func(conn) {...}
HTAccept(k) ==
    /\ htLoop = "accept"
    /\ htUnderlay.pending > 0
    /\ htTasks[k].pc = "free"
    /\ htUnderlay' = [htUnderlay EXCEPT !.pending = @ - 1]
    /\ htTasks' = [htTasks EXCEPT ![k] = [FreeHttpTask EXCEPT !.pc = "read", !.conn = "open"]]
    /\ UNCHANGED <<htCtxDone, htLoop, htConnChan, htRelayConn, htOthers>>

\* acceptLoop: the underlay returns an error; the loop returns when s.ctx is
\* done, else it logs and goes on
HTAcceptFailed ==
    /\ htLoop = "accept"
    /\ htLoop' = IF htCtxDone THEN "exited" ELSE "accept"
    /\ UNCHANGED <<htCtxDone, htUnderlay, htTasks, htConnChan, htRelayConn, htOthers>>

\* task: http.ReadRequest fails: return (the connection is not closed)
HTBadRequest(k) ==
    /\ htTasks[k].pc = "read"
    /\ htTasks' = [htTasks EXCEPT ![k].pc = "returned"]
    /\ UNCHANGED <<htCtxDone, htUnderlay, htLoop, htConnChan, htRelayConn, htOthers>>

\* task: CONNECT with an invalid host, or the 200 response cannot be
\* written: conn.Close(), return
HTConnectRejected(k) ==
    \E host \in ConnectHosts :
        /\ htTasks[k].pc = "read"
        /\ htTasks' = [htTasks EXCEPT ![k].pc = "returned", ![k].conn = "closed",
                                      ![k].method = "CONNECT", ![k].host = host]
        /\ UNCHANGED <<htCtxDone, htUnderlay, htLoop, htConnChan, htRelayConn, htOthers>>

\* a changed HTConnectEstablished: the task goes to the send without
\* writing the 200 response
HTConnectEstablishedUnanswered(k) ==
    \E host \in ConnectHosts :
        /\ htTasks[k].pc = "read"
        /\ ~NewAddressFromAddr(host).err
        /\ htTasks' = [htTasks EXCEPT ![k].pc = "sendConnect",
                                      ![k].method = "CONNECT", ![k].host = host]
        /\ UNCHANGED <<htCtxDone, htUnderlay, htLoop, htConnChan, htRelayConn, htOthers>>

\* task: CONNECT with a valid host, the 200 response is written; the task
\* reaches s.connChan <- &ConnectConn{...}
HTConnectEstablished(k) ==
    \E host \in ConnectHosts :
        /\ htTasks[k].pc = "read"
        /\ ~NewAddressFromAddr(host).err
        /\ htTasks' = [htTasks EXCEPT ![k].pc = "sendConnect",
                                      ![k].method = "CONNECT", ![k].host = host,
                                      ![k].wrote200 = TRUE]
        /\ UNCHANGED <<htCtxDone, htUnderlay, htLoop, htConnChan, htRelayConn, htOthers>>

\* task: another method: defer conn.Close(); newConn is made with the
\* address of req.Host and the task reaches s.connChan <- newConn
HTOtherRequest(k) ==
    \E host \in RequestHosts :
        /\ htTasks[k].pc = "read"
        /\ htTasks' = [htTasks EXCEPT ![k].pc = "sendOther", ![k].method = "GET",
                                      ![k].host = host, ![k].reqNo = 1,
                                      ![k].metadata = OtherAddress(host),
                                      ![k].tunnel = "made"]
        /\ UNCHANGED <<htCtxDone, htUnderlay, htLoop, htConnChan, htRelayConn, htOthers>>

\* task: s.connChan <- &ConnectConn{...} completes; the task ends and the
\* connection is the consumer's
HTSendConnect(k) ==
    /\ htTasks[k].pc = "sendConnect"
    /\ htConnChan < HttpConnChanCap
    /\ htConnChan' = htConnChan + 1
    /\ htTasks' = [htTasks EXCEPT ![k].pc = "returned", ![k].conn = "delivered",
                                  ![k].metadata = NewAddressFromAddr(htTasks[k].host).address]
    /\ UNCHANGED <<htCtxDone, htUnderlay, htLoop, htRelayConn, htOthers>>

\* task: s.connChan <- newConn completes; the task goes on to write the
\* request and read the response
HTSendOther(k) ==
    /\ htTasks[k].pc = "sendOther"
    /\ htConnChan < HttpConnChanCap
    /\ htConnChan' = htConnChan + 1
    /\ htTasks' = [htTasks EXCEPT ![k].pc = "exchange", ![k].sends = @ + 1,
                                  ![k].tunnel = "open"]
    /\ UNCHANGED <<htCtxDone, htUnderlay, htLoop, htRelayConn, htOthers>>

\* task: writing the request, or reading or writing the response fails:
\* return; the deferred conn.Close() runs
HTExchangeFailed(k) ==
    /\ htTasks[k].pc = "exchange"
    /\ htTasks' = [htTasks EXCEPT ![k].pc = "returned", ![k].conn = "closed"]
    /\ UNCHANGED <<htCtxDone, htUnderlay, htLoop, htConnChan, htRelayConn, htOthers>>

\* a changed HTExchangeDone: newConn.Close() closes the embedded net.Conn too
HTExchangeDoneClosesStream(k) ==
    /\ htTasks[k].pc = "exchange"
    /\ htTasks' = [htTasks EXCEPT ![k].pc = "next", ![k].tunnel = "closed",
                                  ![k].conn = "closed"]
    /\ UNCHANGED <<htCtxDone, htUnderlay, htLoop, htConnChan, htRelayConn, htOthers>>

\* task: the response is written back and newConn.Close() runs, which
\* cancels newConn's context and closes its two pipes, not the net.Conn
HTExchangeDone(k) ==
    /\ htTasks[k].pc = "exchange"
    /\ htTasks' = [htTasks EXCEPT ![k].pc = "next", ![k].tunnel = "closed"]
    /\ UNCHANGED <<htCtxDone, htUnderlay, htLoop, htConnChan, htRelayConn, htOthers>>

\* task: the next request of the client stream is read: the loop body runs
\* again and makes a newConn with the address of the new req.Host
HTNextRequest(k) ==
    \E host \in RequestHosts :
        /\ htTasks[k].pc = "next"
        /\ htTasks[k].reqNo < MaxRequests
        /\ htTasks' = [htTasks EXCEPT ![k].pc = "sendOther", ![k].host = host,
                                      ![k].reqNo = @ + 1, ![k].sends = 0,
                                      ![k].metadata = OtherAddress(host),
                                      ![k].tunnel = "made"]
        /\ UNCHANGED <<htCtxDone, htUnderlay, htLoop, htConnChan, htRelayConn, htOthers>>

\* task: reading the next request fails: return; the deferred conn.Close()
\* runs
HTNextRequestFailed(k) ==
    /\ htTasks[k].pc = "next"
    /\ htTasks' = [htTasks EXCEPT ![k].pc = "returned", ![k].conn = "closed"]
    /\ UNCHANGED <<htCtxDone, htUnderlay, htLoop, htConnChan, htRelayConn, htOthers>>

\* the task goroutine is gone
HTTaskGone(k) ==
    /\ htTasks[k].pc = "returned"
    /\ htTasks' = [htTasks EXCEPT ![k] = FreeHttpTask]
    /\ UNCHANGED <<htCtxDone, htUnderlay, htLoop, htConnChan, htRelayConn, htOthers>>

\* relayConnLoop: source.AcceptConn takes case conn := <-s.connChan
HTRelayTakesConn ==
    /\ htRelayConn = "accept"
    /\ htConnChan > 0
    /\ htConnChan' = htConnChan - 1
    /\ UNCHANGED <<htCtxDone, htUnderlay, htLoop, htTasks, htRelayConn, htOthers>>

\* relayConnLoop: source.AcceptConn returns an error on <-s.ctx.Done();
\* p.ctx is done: the loop returns
HTRelayConnExits ==
    /\ htRelayConn = "accept"
    /\ htCtxDone
    /\ htRelayConn' = "exited"
    /\ UNCHANGED <<htCtxDone, htUnderlay, htLoop, htTasks, htConnChan, htOthers>>

\* Proxy.Close: p.cancel() cancels the root context and s.ctx below it
HTProxyCancel ==
    /\ ~htCtxDone
    /\ htCtxDone' = TRUE
    /\ UNCHANGED <<htUnderlay, htLoop, htTasks, htConnChan, htRelayConn, htOthers>>

\* Proxy.Close: source.Close(), that is s.cancel() and s.underlay.Close()
HTProxyClosesSource ==
    /\ htCtxDone
    /\ ~htUnderlay.closed
    /\ htUnderlay' = [htUnderlay EXCEPT !.closed = TRUE]
    /\ UNCHANGED <<htCtxDone, htLoop, htTasks, htConnChan, htRelayConn, htOthers>>

NextHttp ==
    \/ HTUnderlayReady
    \/ \E k \in HttpTasks : HTAccept(k)
    \/ HTAcceptFailed
    \/ \E k \in HttpTasks :
          \/ HTBadRequest(k) \/ HTConnectRejected(k)
          \/ HTConnectEstablished(k) \/ HTOtherRequest(k)
          \/ HTSendConnect(k) \/ HTSendOther(k)
          \/ HTExchangeFailed(k) \/ HTExchangeDone(k)
          \/ HTNextRequest(k) \/ HTNextRequestFailed(k)
          \/ HTTaskGone(k)
    \/ HTRelayTakesConn
    \/ HTRelayConnExits
    \/ HTProxyCancel
    \/ HTProxyClosesSource

-----------------------------------------------------------------------------
(***************************************************************************)
(* Router Client under concurrent callers: Route and DialConn              *)
(***************************************************************************)

\* the goroutines that may be inside Route or DialConn at once
MaxRouteCallers == 2

RouteCallers == 1..MaxRouteCallers

rtOthers == <<routeCall, redirVars, closeVars, relayVars, ssVars, htVars, ncVars, mnVars, pkVars,
              laterVars>>

\* what a DialConn call did: the Route result, the clients it dialed, and
\* whether it returned an error
DialResult(route, dialed, err) == [route |-> route, dialed |-> dialed, err |-> err]

\* a changed DialConn: case Block dials the underlay like case Proxy
DialConnBlockDialsUnderlay(c, address, dns, dialOK) ==
    LET route == Route(c, address, dns)
    IN  CASE route.policy = Bypass -> DialResult(route, {"direct"}, ~dialOK)
          [] OTHER -> DialResult(route, {"underlay"}, ~dialOK)

\* Client.DialConn(address, overlay); dialOK: the dial it makes succeeds
DialConn(c, address, dns, dialOK) ==
    LET route == Route(c, address, dns)
    IN  CASE route.policy = Proxy  -> DialResult(route, {"underlay"}, ~dialOK)
          [] route.policy = Block  -> DialResult(route, {}, TRUE)
          [] route.policy = Bypass -> DialResult(route, {"direct"}, ~dialOK)

\* the clients and destinations the concurrent callers are checked over
CallClients ==
    { c \in [domains : [Policies -> DomainLists],
             cidrs : [Policies -> CIDRLists],
             defaultPolicy : Policies,
             domainStrategy : Strategies] :
          /\ c.domains[Proxy] = <<>>
          /\ c.cidrs[Bypass] = <<>>
          /\ c.cidrs[Block] # <<>> }

CallAddresses ==
    {DomainAddress(Name_a), DomainAddress(Name_c), IPAddress(IP4_in)}

CallDNSAnswers == {NoIP, IP4_in}

IdleCall ==
    [pc |-> "idle", op |-> "none", address |-> DomainAddress(<<>>), dns |-> NoIP,
     result |-> DialResult(RouteResult(NoMatch, 0, FALSE, FALSE), {}, FALSE)]

RouterCallsIdle == rtCalls = [i \in RouteCallers |-> IdleCall]

InitRouterCalls ==
    /\ client \in CallClients
    /\ routeCall = NoCall
    /\ RouterCallsIdle

\* a goroutine enters Route or DialConn with an address
ClientCall(i) ==
    \E op \in {"Route", "DialConn"}, address \in CallAddresses, dns \in CallDNSAnswers :
        /\ rtCalls[i].pc = "idle"
        /\ address.type # "DomainName" => dns = NoIP
        /\ rtCalls' = [rtCalls EXCEPT ![i] =
               [IdleCall EXCEPT !.pc = "called", !.op = op,
                                !.address = address, !.dns = dns]]
        /\ UNCHANGED <<client, rtOthers>>

\* Client.Route runs and returns the policy
ClientRoute(i) ==
    /\ rtCalls[i].pc = "called"
    /\ rtCalls[i].op = "Route"
    /\ rtCalls' = [rtCalls EXCEPT ![i].pc = "returned",
           ![i].result = DialResult(Route(client, rtCalls[i].address, rtCalls[i].dns),
                                    {}, FALSE)]
    /\ UNCHANGED <<client, rtOthers>>

\* Client.DialConn runs: Route, then the switch on the policy
ClientDialConn(i) ==
    \E dialOK \in BOOLEAN :
        /\ rtCalls[i].pc = "called"
        /\ rtCalls[i].op = "DialConn"
        /\ rtCalls' = [rtCalls EXCEPT ![i].pc = "returned",
               ![i].result = DialConn(client, rtCalls[i].address, rtCalls[i].dns, dialOK)]
        /\ UNCHANGED <<client, rtOthers>>

\* the caller has taken the result and may call again
ClientCallDone(i) ==
    /\ rtCalls[i].pc = "returned"
    /\ rtCalls' = [rtCalls EXCEPT ![i] = IdleCall]
    /\ UNCHANGED <<client, rtOthers>>

NextRouterCalls ==
    \E i \in RouteCallers :
        \/ ClientCall(i)
        \/ ClientRoute(i)
        \/ ClientDialConn(i)
        \/ ClientCallDone(i)

-----------------------------------------------------------------------------
(***************************************************************************)
(* Router construction: NewClient's regex:, regexp: and cidr: rules        *)
(***************************************************************************)

\* the rules of one configuration
MaxConfigRules == 2

ncOthers == <<routerVars, redirVars, closeVars, relayVars, ssVars, htVars, rtVars, mnVars, pkVars,
              laterVars>>

\* strings.Split(s, "/"), from position i on, with cur the segment so far
RECURSIVE SplitFrom(_, _, _)
SplitFrom(s, i, cur) ==
    IF i > Len(s) THEN <<cur>>
    ELSE IF s[i] = "/" THEN <<cur>> \o SplitFrom(s, i + 1, <<>>)
    ELSE SplitFrom(s, i + 1, Append(cur, s[i]))

SplitSlash(s) == SplitFrom(s, 1, <<>>)

\* net.ParseIP over the literals the model writes: "4" is an IPv4 literal,
\* "6" an IPv6 literal, anything else does not parse (nil)
ParseIP(s) ==
    IF s = <<"4">> THEN IP4_in
    ELSE IF s = <<"6">> THEN IP6_out
    ELSE NoIP

Digits == {"0", "1", "9"}

DigitValue(d) == IF d = "0" THEN 0 ELSE IF d = "1" THEN 1 ELSE 9

RECURSIVE Decimal(_, _)
Decimal(ds, acc) ==
    IF ds = <<>> THEN acc ELSE Decimal(Tail(ds), 10 * acc + DigitValue(Head(ds)))

\* strconv.ParseInt(s, 10, 32): an optional sign and one or more digits; the
\* texts of the model stay far inside the 32-bit range
ParseInt(s) ==
    LET neg == s # <<>> /\ Head(s) = "-"
        signed == s # <<>> /\ Head(s) \in {"-", "+"}
        ds == IF signed THEN Tail(s) ELSE s
    IN  IF ds = <<>> \/ \E k \in 1..Len(ds) : ds[k] \notin Digits
        THEN [err |-> TRUE, value |-> 0]
        ELSE [err |-> FALSE,
              value |-> IF neg THEN 0 - Decimal(ds, 0) ELSE Decimal(ds, 0)]

\* the width of the unsigned prefix field, scaled from 32 bits to what the
\* checker's integers hold
PrefixBits == 16

\* the conversion uint32(prefix): a negative number wraps around
Uint32(n) == n % (2 ^ PrefixBits)

\* one iteration of the cidr: loop of NewClient (client.go:425-441)
ParseCIDRRule(code) ==
    LET tmp == SplitSlash(code)
    IN  IF Len(tmp) # 2 THEN [err |-> TRUE, cidr |-> <<>>]
        ELSE IF ParseIP(tmp[1]) = NoIP THEN [err |-> TRUE, cidr |-> <<>>]
        ELSE IF ParseInt(tmp[2]).err THEN [err |-> TRUE, cidr |-> <<>>]
        ELSE [err |-> FALSE,
              cidr |-> <<[ip |-> ParseIP(tmp[1]),
                          prefix |-> Uint32(ParseInt(tmp[2]).value)]>>]

\* loadCode(cfg, prefix): the codes of the rules with that prefix, in order;
\* a rule with an empty code is dropped with a warning
loadCode(rules, prefix) ==
    SelectSeq(rules, LAMBDA r : r.prefix = prefix /\ r.code # <<>>)

\* the regex: (and regexp:) loop of NewClient: the first pattern that does
\* not compile ends the construction with an error
RECURSIVE RegexRules(_, _)
RegexRules(codes, domains) ==
    IF codes = <<>> THEN [err |-> FALSE, domains |-> domains]
    ELSE IF ~RegexCompiles(Head(codes).code) THEN [err |-> TRUE, domains |-> domains]
    ELSE RegexRules(Tail(codes),
                    Append(domains, [type |-> "Regex", value |-> Head(codes).code]))

\* the cidr: loop of NewClient
RECURSIVE CIDRRuleLoop(_, _)
CIDRRuleLoop(codes, cidrs) ==
    IF codes = <<>> THEN [err |-> FALSE, cidrs |-> cidrs]
    ELSE LET one == ParseCIDRRule(Head(codes).code)
         IN  IF one.err THEN [err |-> TRUE, cidrs |-> cidrs]
             ELSE CIDRRuleLoop(Tail(codes), cidrs \o one.cidr)

NoClient == [returned |-> FALSE, err |-> FALSE, domains |-> <<>>, cidrs |-> <<>>]

\* NewClient over the rules of one policy list: regex:, regexp:, then cidr:
NewClient(rules) ==
    LET re1 == RegexRules(loadCode(rules, "regex:"), <<>>)
        re2 == RegexRules(loadCode(rules, "regexp:"), re1.domains)
        ci  == CIDRRuleLoop(loadCode(rules, "cidr:"), <<>>)
    IN  IF re1.err \/ re2.err \/ ci.err
        THEN [returned |-> TRUE, err |-> TRUE, domains |-> <<>>, cidrs |-> <<>>]
        ELSE [returned |-> TRUE, err |-> FALSE,
              domains |-> re2.domains, cidrs |-> ci.cidrs]

\* the rule strings the construction is checked over
CIDRCodes ==
    { <<"4", "/", "1">>, <<"6", "/", "1">>, <<"4", "/", "0">>,
      <<"4">>, <<"4", "/", "1", "/", "1">>, <<"/", "1">>,
      <<"x", "/", "1">>, <<"4", "/", "z">>, <<"4", "/">>,
      <<"4", "/", "-", "1">>, <<"4", "/", "9">>, <<"6", "/", "9", "9">>, <<>> }

RegexCodes == { <<"a">>, <<"a", ".">>, <<"(">>, <<"a", "(">> }

ConfigRules ==
    {[prefix |-> "cidr:", code |-> c] : c \in CIDRCodes}
    \cup {[prefix |-> p, code |-> c] : p \in {"regex:", "regexp:"}, c \in RegexCodes}

NewClientIdle == ncConfig = <<>> /\ ncResult = NoClient

InitNewClient ==
    /\ ncConfig \in SeqsUpTo(ConfigRules, MaxConfigRules)
    /\ ncResult = NoClient

\* NewClient runs over the configuration
NewClientCall ==
    /\ ~ncResult.returned
    /\ ncResult' = NewClient(ncConfig)
    /\ UNCHANGED <<ncConfig, ncOthers>>

\* the process is started again with the same configuration
NewClientRestart ==
    /\ ncResult.returned
    /\ ncResult' = NoClient
    /\ UNCHANGED <<ncConfig, ncOthers>>

NextNewClient == NewClientCall \/ NewClientRestart

-----------------------------------------------------------------------------
(***************************************************************************)
(* The process: main, Option.Handle of -config, Proxy.Run                  *)
(***************************************************************************)

mnOthers == <<routerVars, redirVars, closeVars, relayVars, ssVars, htVars,
              rtVars, ncVars, pkVars, laterVars>>

\* defaultConfigPath
DefaultConfigPaths == <<"config.json", "config.yml", "config.yaml">>

\* the values of -config the process is started with: none, and files with a
\* supported and with an unsupported suffix
ConfigPaths == {"", "my.json", "my.yaml", "my.txt"}

ConfigFiles == {DefaultConfigPaths[k] : k \in 1..Len(DefaultConfigPaths)} \cup (ConfigPaths \ {""})

\* strings.HasSuffix(file, ".json"), ".yaml", ".yml" over the files above
SupportedSuffix(file) == file \notin {"my.txt"}

\* detectAndReadConfig(file): "exit" (os.Exit(1) on an unsupported suffix),
\* "err" (ReadFile failed) or "data"
detectAndReadConfig(cfg, file) ==
    IF ~SupportedSuffix(file) THEN "exit"
    ELSE IF file \notin cfg.readable THEN "err"
    ELSE "data"

\* the loop over defaultConfigPath from k on: is there data at its end
RECURSIVE DefaultSearch(_, _)
DefaultSearch(cfg, k) ==
    IF k > Len(DefaultConfigPaths) THEN "err"
    ELSE IF detectAndReadConfig(cfg, DefaultConfigPaths[k]) = "data" THEN "data"
    ELSE DefaultSearch(cfg, k + 1)

StartedProcess == [pc |-> "start", ran |-> FALSE, exit |-> "none"]

MainIdle ==
    /\ mnConfig = [path |-> "", readable |-> {}, builds |-> FALSE]
    /\ mnProc = StartedProcess

InitMain ==
    /\ mnConfig \in [path : ConfigPaths, readable : SUBSET ConfigFiles, builds : BOOLEAN]
    /\ mnProc = StartedProcess

\* Handle, the switch on *o.path: a given path whose suffix is unsupported or
\* which cannot be read ends the process with os.Exit(1)
HandleReadFails ==
    /\ mnProc.pc = "start"
    /\ mnConfig.path # ""
    /\ detectAndReadConfig(mnConfig, mnConfig.path) \in {"exit", "err"}
    /\ mnProc' = [mnProc EXCEPT !.pc = "exited", !.exit = 1]
    /\ UNCHANGED <<mnConfig, mnOthers>>

\* Handle, the switch on *o.path: the configuration is read, from the given
\* path or from the first default path that can be read
HandleReadsData ==
    /\ mnProc.pc = "start"
    /\ IF mnConfig.path = "" THEN DefaultSearch(mnConfig, 1) = "data"
       ELSE detectAndReadConfig(mnConfig, mnConfig.path) = "data"
    /\ mnProc' = [mnProc EXCEPT !.pc = "data"]
    /\ UNCHANGED <<mnConfig, mnOthers>>

\* Handle: no path was given and no default path can be read; data is nil,
\* "no valid config", os.Exit(1)
HandleNoConfig ==
    /\ mnProc.pc = "start"
    /\ mnConfig.path = ""
    /\ DefaultSearch(mnConfig, 1) # "data"
    /\ mnProc' = [mnProc EXCEPT !.pc = "exited", !.exit = 1]
    /\ UNCHANGED <<mnConfig, mnOthers>>

\* Handle: NewProxyFromConfigData fails, os.Exit(1)
HandleBuildFails ==
    /\ mnProc.pc = "data"
    /\ ~mnConfig.builds
    /\ mnProc' = [mnProc EXCEPT !.pc = "exited", !.exit = 1]
    /\ UNCHANGED <<mnConfig, mnOthers>>

\* Handle: the proxy is built; proxy.Run() starts the relay loops and waits
\* on <-p.ctx.Done()
HandleRuns ==
    /\ mnProc.pc = "data"
    /\ mnConfig.builds
    /\ mnProc' = [mnProc EXCEPT !.pc = "running"]
    /\ UNCHANGED <<mnConfig, mnOthers>>

\* Proxy.Run: the context is cancelled, Run returns nil
ProxyRunReturns ==
    /\ mnProc.pc = "running"
    /\ mnProc' = [mnProc EXCEPT !.pc = "afterRun", !.ran = TRUE]
    /\ UNCHANGED <<mnConfig, mnOthers>>

\* Handle after Run returned nil: the if data != nil block ends and control
\* reaches slog.Error("no valid config"); os.Exit(1)
HandleAfterRun ==
    /\ mnProc.pc = "afterRun"
    /\ mnProc' = [mnProc EXCEPT !.pc = "exited", !.exit = 1]
    /\ UNCHANGED <<mnConfig, mnOthers>>

NextMain ==
    \/ HandleReadFails
    \/ HandleReadsData
    \/ HandleNoConfig
    \/ HandleBuildFails
    \/ HandleRuns
    \/ ProxyRunReturns
    \/ HandleAfterRun

-----------------------------------------------------------------------------
(***************************************************************************)
(* Proxy datagram relay: proxy/proxy.go, relayPacketLoop                   *)
(***************************************************************************)

\* the datagrams one direction of a flow may carry
MaxDatagrams == 2

\* MaxPacketSize, the length of buf, scaled from 1024 * 8 bytes
PacketBufSize == 2

pkOthers == <<routerVars, redirVars, closeVars, relayVars, ssVars, htVars,
              rtVars, ncVars, mnVars, laterVars>>

\* "up": copyPacket(inbound, outbound) reads inbound and writes outbound;
\* "down": copyPacket(outbound, inbound) reads outbound and writes inbound
Directions == {"up", "down"}

ReadSide(d) == IF d = "up" THEN "inbound" ELSE "outbound"
WriteSide(d) == IF d = "up" THEN "outbound" ELSE "inbound"

\* what ReadWithMetadata may return: n bytes of payload and the metadata
Datagrams == [n : 0..PacketBufSize, metadata : {"m1", "m2"}]

NoDatagram == [n |-> 0, metadata |-> "none"]

IdleCopy == [pc |-> "none", buf |-> NoDatagram, end |-> "none"]

InitPacketRelay ==
    /\ pkCtxDone = FALSE
    /\ pkWorker = [pc |-> "free", inbound |-> "none", outbound |-> "none", errChan |-> 0]
    /\ pkCopy = [d \in Directions |-> IdleCopy]
    /\ pkRead = [d \in Directions |-> <<>>]
    /\ pkWritten = [d \in Directions |-> <<>>]

PacketRelayIdle == InitPacketRelay

\* inbound, err := source.AcceptPacket(nil) returns a packet connection;
\* go func(inbound) { defer inbound.Close() ...
PacketAccept ==
    /\ pkWorker.pc = "free"
    /\ ~pkCtxDone
    /\ pkWorker' = [pkWorker EXCEPT !.pc = "dial", !.inbound = "open"]
    /\ UNCHANGED <<pkCtxDone, pkCopy, pkRead, pkWritten, pkOthers>>

\* p.sink.DialPacket fails: return; the deferred inbound.Close() runs
PacketDialFailed ==
    /\ pkWorker.pc = "dial"
    /\ pkWorker' = [pkWorker EXCEPT !.pc = "returned", !.inbound = "closed"]
    /\ UNCHANGED <<pkCtxDone, pkCopy, pkRead, pkWritten, pkOthers>>

\* p.sink.DialPacket succeeds: defer outbound.Close(); the two copyPacket
\* goroutines start and the worker reaches its select
PacketDialed ==
    /\ pkWorker.pc = "dial"
    /\ pkWorker' = [pkWorker EXCEPT !.pc = "select", !.outbound = "open"]
    /\ pkCopy' = [d \in Directions |-> [IdleCopy EXCEPT !.pc = "read"]]
    /\ UNCHANGED <<pkCtxDone, pkRead, pkWritten, pkOthers>>

\* copyPacket: n, metadata, err := a.ReadWithMetadata(buf) returns a
\* datagram; n == 0: errChan <- nil and return, else go on to the write
CopyPacketRead(d) ==
    \E dg \in Datagrams :
        /\ pkCopy[d].pc = "read"
        /\ pkWorker[ReadSide(d)] = "open"
        /\ Len(pkRead[d]) < MaxDatagrams
        /\ pkRead' = [pkRead EXCEPT ![d] = Append(@, dg)]
        /\ IF dg.n = 0
           THEN /\ pkCopy' = [pkCopy EXCEPT ![d].pc = "done", ![d].end = "zero"]
                /\ pkWorker' = [pkWorker EXCEPT !.errChan = @ + 1]
           ELSE /\ pkCopy' = [pkCopy EXCEPT ![d].pc = "write", ![d].buf = dg]
                /\ UNCHANGED pkWorker
        /\ UNCHANGED <<pkCtxDone, pkWritten, pkOthers>>

\* copyPacket: ReadWithMetadata returns an error (always so on a closed
\* connection): errChan <- err, return
CopyPacketReadFails(d) ==
    /\ pkCopy[d].pc = "read"
    /\ pkCopy' = [pkCopy EXCEPT ![d].pc = "done", ![d].end = "readErr"]
    /\ pkWorker' = [pkWorker EXCEPT !.errChan = @ + 1]
    /\ UNCHANGED <<pkCtxDone, pkRead, pkWritten, pkOthers>>

\* a changed CopyPacketWrite: the datagram is written with the metadata of
\* the flow's first datagram instead of its own
CopyPacketWriteFirstMetadata(d) ==
    /\ pkCopy[d].pc = "write"
    /\ pkWorker[WriteSide(d)] = "open"
    /\ pkWritten' = [pkWritten EXCEPT ![d] =
           Append(@, [pkCopy[d].buf EXCEPT !.metadata = pkRead[d][1].metadata])]
    /\ pkCopy' = [pkCopy EXCEPT ![d].pc = "read", ![d].buf = NoDatagram]
    /\ UNCHANGED <<pkCtxDone, pkWorker, pkRead, pkOthers>>

\* copyPacket: b.WriteWithMetadata(buf[:n], metadata) delivers the datagram;
\* the loop goes back to the read
CopyPacketWrite(d) ==
    /\ pkCopy[d].pc = "write"
    /\ pkWorker[WriteSide(d)] = "open"
    /\ pkWritten' = [pkWritten EXCEPT ![d] = Append(@, pkCopy[d].buf)]
    /\ pkCopy' = [pkCopy EXCEPT ![d].pc = "read", ![d].buf = NoDatagram]
    /\ UNCHANGED <<pkCtxDone, pkWorker, pkRead, pkOthers>>

\* copyPacket: WriteWithMetadata returns an error (always so on a closed
\* connection): errChan <- err, return
CopyPacketWriteFails(d) ==
    /\ pkCopy[d].pc = "write"
    /\ pkCopy' = [pkCopy EXCEPT ![d].pc = "done", ![d].end = "writeErr"]
    /\ pkWorker' = [pkWorker EXCEPT !.errChan = @ + 1]
    /\ UNCHANGED <<pkCtxDone, pkRead, pkWritten, pkOthers>>

\* worker: case err = <-errChan; the worker ends and the deferred Closes run
PacketRelayEnded ==
    /\ pkWorker.pc = "select"
    /\ pkWorker.errChan > 0
    /\ pkWorker' = [pkWorker EXCEPT !.pc = "returned", !.errChan = @ - 1,
                                    !.inbound = "closed", !.outbound = "closed"]
    /\ UNCHANGED <<pkCtxDone, pkCopy, pkRead, pkWritten, pkOthers>>

\* worker: case <-p.ctx.Done(); the worker ends and the deferred Closes run
PacketRelayCancelled ==
    /\ pkWorker.pc = "select"
    /\ pkCtxDone
    /\ pkWorker' = [pkWorker EXCEPT !.pc = "returned",
                                    !.inbound = "closed", !.outbound = "closed"]
    /\ UNCHANGED <<pkCtxDone, pkCopy, pkRead, pkWritten, pkOthers>>

\* Proxy.Close: p.cancel()
PacketProxyCancel ==
    /\ ~pkCtxDone
    /\ pkCtxDone' = TRUE
    /\ UNCHANGED <<pkWorker, pkCopy, pkRead, pkWritten, pkOthers>>

NextPacketRelay ==
    \/ PacketAccept
    \/ PacketDialFailed
    \/ PacketDialed
    \/ \E d \in Directions : CopyPacketRead(d)
    \/ \E d \in Directions : CopyPacketReadFails(d)
    \/ \E d \in Directions : CopyPacketWrite(d)
    \/ \E d \in Directions : CopyPacketWriteFails(d)
    \/ PacketRelayEnded
    \/ PacketRelayCancelled
    \/ PacketProxyCancel

\* A goroutine that can run does run: the worker's select takes a ready case
PacketRelayFairness == WF_vars(PacketRelayEnded \/ PacketRelayCancelled)

-----------------------------------------------------------------------------
(***************************************************************************)
(* slog adapter: log/slogadapter, SlogAdapter and FallbackWriter           *)
(***************************************************************************)

lgOthers == <<routerVars, redirVars, closeVars, relayVars, ssVars, htVars,
              rtVars, ncVars, mnVars, pkVars, cfVars, finalVars>>

\* log.LogLevel
AllLevel == 0
InfoLevel == 1
WarnLevel == 2
ErrorLevel == 3
FatalLevel == 4
OffLevel == 5

LogLevels == {AllLevel, InfoLevel, WarnLevel, ErrorLevel, FatalLevel, OffLevel}

\* slog.Level: the four of log/slog and the adapter's LevelTrace, LevelFatal
LevelTrace == -8
LevelDebug == -4
LevelInfo == 0
LevelWarn == 4
LevelError == 8
LevelFatal == 12

\* slog.Level(100), the threshold of log.OffLevel
LevelDisabled == 100

SlogLevels == {LevelTrace, LevelDebug, LevelInfo, LevelWarn, LevelError, LevelFatal}

mapLogLevelToSlog(level) ==
    CASE level = AllLevel -> LevelTrace
      [] level = InfoLevel -> LevelInfo
      [] level = WarnLevel -> LevelWarn
      [] level = ErrorLevel -> LevelError
      [] level = FatalLevel -> LevelFatal
      [] level = OffLevel -> LevelDisabled
      [] OTHER -> LevelInfo

\* the severities, named as the methods are: Info, Infof, InfoWith, InfoCtx
Severities == {"Trace", "Debug", "Info", "Warn", "Error", "Fatal"}

\* the slog.Level a method of that severity logs at
MethodLevel(sev) ==
    CASE sev = "Trace" -> LevelTrace
      [] sev = "Debug" -> LevelDebug
      [] sev = "Info" -> LevelInfo
      [] sev = "Warn" -> LevelWarn
      [] sev = "Error" -> LevelError
      [] sev = "Fatal" -> LevelFatal

\* a changed HandlerEnabled: a record at the threshold itself is dropped
HandlerEnabledAbove(levelVar, level) == level > levelVar

\* handler.Enabled(ctx, level) of a handler made with Level: s.levelVar
HandlerEnabled(levelVar, level) == level >= levelVar

\* ---- fmt.Sprint and fmt.Sprintf over string arguments; a string is a
\* ---- sequence of one-character strings

\* fmt.Sprint(args...): string operands are written one after the other
RECURSIVE Sprint(_)
Sprint(args) ==
    IF args = <<>> THEN <<>> ELSE Head(args) \o Sprint(Tail(args))

\* what Sprintf appends for the operands no verb has used
RECURSIVE ExtraArgs(_)
ExtraArgs(args) ==
    IF args = <<>> THEN <<>>
    ELSE <<"string=">> \o Head(args) \o
         (IF Tail(args) = <<>> THEN <<>> ELSE <<", ">>) \o ExtraArgs(Tail(args))

\* fmt.Sprintf(format, args...) for the verb %s: each %s takes the next
\* operand, or writes %!s(MISSING); operands left over are written as
\* %!(EXTRA string=...)
RECURSIVE Sprintf(_, _)
Sprintf(format, args) ==
    IF format = <<>>
    THEN IF args = <<>> THEN <<>>
         ELSE <<"%!(EXTRA ">> \o ExtraArgs(args) \o <<")">>
    ELSE IF Len(format) >= 2 /\ format[1] = "%" /\ format[2] = "s"
         THEN IF args = <<>>
              THEN <<"%!s(MISSING)">> \o Sprintf(SubSeq(format, 3, Len(format)), args)
              ELSE Head(args) \o Sprintf(SubSeq(format, 3, Len(format)), Tail(args))
         ELSE <<format[1]>> \o Sprintf(Tail(format), args)

\* the message strings, format strings and operands of the calls
Messages == {<<>>, <<"a">>}
FormatStrings == {<<>>, <<"%", "s">>, <<"x">>}

\* lazyFormat after its enabled-check: Sprint for the empty format, else
\* Sprintf
lazyFormat(format, args) ==
    IF format = <<>> THEN Sprint(args) ELSE Sprintf(format, args)

\* ---- the writers

\* two buffers, two writers whose Write always fails, os.Stderr, and no
\* writer
Buffers == {"buf1", "buf2"}
Writers == Buffers \cup {"failing", "failing2", "stderr", "nil"}

\* the writer's Write returns no error
Accepts(w) == w \in Buffers \cup {"stderr"}

\* a changed FallbackWriter.Write: the error of the fallback is returned when
\* both writers fail
FallbackWriterWriteReturnsError(primary, fallback) ==
    LET primaryOK == primary # "nil" /\ Accepts(primary)
        fallbackOK == fallback # "nil" /\ fallback # primary /\ Accepts(fallback)
    IN  [to |-> IF primaryOK THEN primary
                ELSE IF fallbackOK THEN fallback ELSE "discarded",
         reports |-> (IF primary # "nil" /\ ~primaryOK
                      THEN <<"primary writer failed">> ELSE <<>>)
                     \o (IF ~primaryOK /\ ~fallbackOK /\ fallback \notin {"nil", primary}
                         THEN <<"fallback writer failed">> ELSE <<>>),
         err |-> ~primaryOK /\ ~fallbackOK]

\* FallbackWriter.Write: where the data went, the HandleError calls made, and
\* the error returned
FallbackWriterWrite(primary, fallback) ==
    LET primaryTried == primary # "nil"
        primaryOK == primaryTried /\ Accepts(primary)
        fallbackTried == ~primaryOK /\ fallback # "nil" /\ fallback # primary
        fallbackOK == fallbackTried /\ Accepts(fallback)
    IN  [to |-> IF primaryOK THEN primary
                ELSE IF fallbackOK THEN fallback ELSE "discarded",
         reports |-> (IF primaryTried /\ ~primaryOK
                      THEN <<"primary writer failed">> ELSE <<>>)
                     \o (IF fallbackTried /\ ~fallbackOK
                         THEN <<"fallback writer failed">> ELSE <<>>),
         err |-> FALSE]

\* ---- the adapters: the one NewSlogAdapter made and those derived from it
Adapters == {"root", "attrs", "group"}

\* an empty sync.Map
EmptyCache == [l \in SlogLevels |-> "none"]

\* LogFormat
Formats == {"text", "json", "colored"}

\* the calls one run makes
MaxLogOps == 3

\* the goroutines that call the root adapter at the same time
MaxLogThreads == 2
LogThreads == 1..MaxLogThreads

IdleThread ==
    [pc |-> "idle", phase |-> 0, sev |-> "none", enabled |-> FALSE, level |-> AllLevel]

NoLogCall ==
    [op |-> "none", adapter |-> "none", kind |-> "none", sev |-> "none",
     text |-> <<>>, wrote |-> FALSE, to |-> "none", err |-> FALSE,
     level |-> AllLevel]

\* NewSlogAdapter(&buf1, false): text format, INFO level, os.Stderr as fallback
InitLogger ==
    /\ lgLevelVar = LevelInfo
    /\ lgLogLevel = InfoLevel
    /\ lgFormat = "text"
    /\ lgOutput = "buf1"
    /\ lgPrimary = "buf1"
    /\ lgFallback = "stderr"
    /\ lgCache = [a \in Adapters |-> EmptyCache]
    /\ lgDerived = {}
    /\ lgSinks = [w \in Buffers \cup {"stderr"} |-> <<>>]
    /\ lgReports = <<>>
    /\ lgLast = NoLogCall
    /\ lgOps = 0
    /\ lgExited = FALSE
    /\ lgThreads = [t \in LogThreads |-> IdleThread]
    /\ lgErrorHandler = "default"

LoggerIdle == InitLogger

\* isEnabledCached(level) on an adapter's cache: the answer, and the cache
\* after the call
isEnabledCached(cache, levelVar, level) ==
    IF cache[level] # "none"
    THEN [enabled |-> cache[level] = "yes", cache |-> cache]
    ELSE [enabled |-> HandlerEnabled(levelVar, level),
          cache |-> [cache EXCEPT ![level] =
                        IF HandlerEnabled(levelVar, level) THEN "yes" ELSE "no"]]

\* the adapter exists
Live(a) == a = "root" \/ a \in lgDerived

\* the sinks after one Write of record rec that went to writer to
SinksAfter(sinks, to, rec) ==
    IF to \in DOMAIN sinks THEN [sinks EXCEPT ![to] = Append(@, rec)] ELSE sinks

\* a changed SetLogLevel: the enabled cache is left as it is
LGSetLogLevelKeepsCache(level) ==
    /\ ~lgExited /\ lgOps < MaxLogOps
    /\ lgLogLevel' = level
    /\ lgLevelVar' = mapLogLevelToSlog(level)
    /\ lgLast' = [NoLogCall EXCEPT !.op = "SetLogLevel", !.adapter = "root",
                                   !.level = level]
    /\ lgOps' = lgOps + 1
    /\ UNCHANGED <<lgCache, lgFormat, lgOutput, lgPrimary, lgFallback, lgDerived, lgSinks,
                   lgReports, lgExited, lgThreads, lgErrorHandler, lgOthers>>

\* SetLogLevel on the root adapter: store s.logLevel, set s.levelVar, clear
\* the enabled cache
LGSetLogLevel(level) ==
    /\ ~lgExited /\ lgOps < MaxLogOps
    /\ lgLogLevel' = level
    /\ lgLevelVar' = mapLogLevelToSlog(level)
    /\ lgCache' = [lgCache EXCEPT !["root"] = EmptyCache]
    /\ lgLast' = [NoLogCall EXCEPT !.op = "SetLogLevel", !.adapter = "root",
                                   !.level = level]
    /\ lgOps' = lgOps + 1
    /\ UNCHANGED <<lgFormat, lgOutput, lgPrimary, lgFallback, lgDerived, lgSinks,
                   lgReports, lgExited, lgThreads, lgErrorHandler, lgOthers>>

\* WithAttrs on the root adapter: a new adapter on a handler derived from
\* s.handler, with s.levelVar and s.fallbackWriter and an enabled cache of
\* its own
LGWithAttrs ==
    /\ ~lgExited
    /\ "attrs" \notin lgDerived
    /\ lgDerived' = lgDerived \cup {"attrs"}
    /\ lgCache' = [lgCache EXCEPT !["attrs"] = EmptyCache]
    /\ UNCHANGED <<lgLevelVar, lgLogLevel, lgFormat, lgOutput, lgPrimary, lgFallback,
                   lgSinks, lgReports, lgLast, lgOps, lgExited, lgThreads, lgErrorHandler, lgOthers>>

\* WithGroup on the root adapter: as WithAttrs
LGWithGroup ==
    /\ ~lgExited
    /\ "group" \notin lgDerived
    /\ lgDerived' = lgDerived \cup {"group"}
    /\ lgCache' = [lgCache EXCEPT !["group"] = EmptyCache]
    /\ UNCHANGED <<lgLevelVar, lgLogLevel, lgFormat, lgOutput, lgPrimary, lgFallback,
                   lgSinks, lgReports, lgLast, lgOps, lgExited, lgThreads, lgErrorHandler, lgOthers>>

\* Trace, Debug, Info, Warn, Error, Fatal (v ...interface{}) with one string
\* operand: isEnabledCached, lazyFormat (which asks isEnabledCached again),
\* and for a non-empty message the slog.Logger call, which asks the handler
\* and writes a record through the FallbackWriter; Fatal then exits
LGLog(a, sev, msg) ==
    LET lvl == MethodLevel(sev)
        chk == isEnabledCached(lgCache[a], lgLevelVar, lvl)
        message == IF chk.enabled THEN lazyFormat(<<>>, <<msg>>) ELSE <<>>
        logged == chk.enabled /\ message # <<>> /\ HandlerEnabled(lgLevelVar, lvl)
        w == FallbackWriterWrite(lgPrimary, lgFallback)
    IN  /\ ~lgExited /\ lgOps < MaxLogOps
        /\ Live(a)
        /\ lgCache' = [lgCache EXCEPT ![a] = chk.cache]
        /\ lgSinks' = IF logged THEN SinksAfter(lgSinks, w.to, lgOps + 1) ELSE lgSinks
        /\ lgReports' = IF logged THEN lgReports \o w.reports ELSE lgReports
        /\ lgLast' = [op |-> "log", adapter |-> a, kind |-> "plain", sev |-> sev,
                      text |-> lazyFormat(<<>>, <<msg>>), wrote |-> logged,
                      to |-> IF logged THEN w.to ELSE "none",
                      err |-> logged /\ w.err, level |-> lgLogLevel]
        /\ lgOps' = lgOps + 1
        /\ lgExited' = (sev = "Fatal")
        /\ UNCHANGED <<lgLevelVar, lgLogLevel, lgFormat, lgOutput, lgPrimary, lgFallback,
                       lgDerived, lgThreads, lgErrorHandler, lgOthers>>

\* Tracef, Debugf, Infof, Warnf, Errorf, Fatalf (format, v...) with one
\* string operand
LGLogf(a, sev, format, arg) ==
    LET lvl == MethodLevel(sev)
        chk == isEnabledCached(lgCache[a], lgLevelVar, lvl)
        message == IF chk.enabled THEN lazyFormat(format, <<arg>>) ELSE <<>>
        logged == chk.enabled /\ message # <<>> /\ HandlerEnabled(lgLevelVar, lvl)
        w == FallbackWriterWrite(lgPrimary, lgFallback)
    IN  /\ ~lgExited /\ lgOps < MaxLogOps
        /\ Live(a)
        /\ lgCache' = [lgCache EXCEPT ![a] = chk.cache]
        /\ lgSinks' = IF logged THEN SinksAfter(lgSinks, w.to, lgOps + 1) ELSE lgSinks
        /\ lgReports' = IF logged THEN lgReports \o w.reports ELSE lgReports
        /\ lgLast' = [op |-> "log", adapter |-> a, kind |-> "formatted", sev |-> sev,
                      text |-> lazyFormat(format, <<arg>>), wrote |-> logged,
                      to |-> IF logged THEN w.to ELSE "none",
                      err |-> logged /\ w.err, level |-> lgLogLevel]
        /\ lgOps' = lgOps + 1
        /\ lgExited' = (sev = "Fatal")
        /\ UNCHANGED <<lgLevelVar, lgLogLevel, lgFormat, lgOutput, lgPrimary, lgFallback,
                       lgDerived, lgThreads, lgErrorHandler, lgOthers>>

\* TraceWith, DebugWith, InfoWith, WarnWith, ErrorWith, FatalWith (msg,
\* attrs...): logger.LogAttrs, which asks the handler and writes a record
LGLogWith(a, sev, msg) ==
    LET logged == HandlerEnabled(lgLevelVar, MethodLevel(sev))
        w == FallbackWriterWrite(lgPrimary, lgFallback)
    IN  /\ ~lgExited /\ lgOps < MaxLogOps
        /\ Live(a)
        /\ lgSinks' = IF logged THEN SinksAfter(lgSinks, w.to, lgOps + 1) ELSE lgSinks
        /\ lgReports' = IF logged THEN lgReports \o w.reports ELSE lgReports
        /\ lgLast' = [op |-> "log", adapter |-> a, kind |-> "structured", sev |-> sev,
                      text |-> msg, wrote |-> logged,
                      to |-> IF logged THEN w.to ELSE "none",
                      err |-> logged /\ w.err, level |-> lgLogLevel]
        /\ lgOps' = lgOps + 1
        /\ lgExited' = (sev = "Fatal")
        /\ UNCHANGED <<lgLevelVar, lgLogLevel, lgFormat, lgOutput, lgPrimary, lgFallback,
                       lgCache, lgDerived, lgThreads, lgErrorHandler, lgOthers>>

\* TraceCtx, DebugCtx, InfoCtx, WarnCtx, ErrorCtx, FatalCtx (ctx, msg,
\* attrs...): logger.LogAttrs(ctx, ...)
LGLogCtx(a, sev, msg) ==
    LET logged == HandlerEnabled(lgLevelVar, MethodLevel(sev))
        w == FallbackWriterWrite(lgPrimary, lgFallback)
    IN  /\ ~lgExited /\ lgOps < MaxLogOps
        /\ Live(a)
        /\ lgSinks' = IF logged THEN SinksAfter(lgSinks, w.to, lgOps + 1) ELSE lgSinks
        /\ lgReports' = IF logged THEN lgReports \o w.reports ELSE lgReports
        /\ lgLast' = [op |-> "log", adapter |-> a, kind |-> "context", sev |-> sev,
                      text |-> msg, wrote |-> logged,
                      to |-> IF logged THEN w.to ELSE "none",
                      err |-> logged /\ w.err, level |-> lgLogLevel]
        /\ lgOps' = lgOps + 1
        /\ lgExited' = (sev = "Fatal")
        /\ UNCHANGED <<lgLevelVar, lgLogLevel, lgFormat, lgOutput, lgPrimary, lgFallback,
                       lgCache, lgDerived, lgThreads, lgErrorHandler, lgOthers>>

\* the level changes and the calls of every method on the root adapter and
\* on the adapters derived from it
NextLogger ==
    \/ \E level \in LogLevels : LGSetLogLevel(level)
    \/ LGWithAttrs
    \/ LGWithGroup
    \/ \E a \in Adapters, sev \in Severities, msg \in Messages : LGLog(a, sev, msg)
    \/ \E a \in Adapters, sev \in Severities, format \in FormatStrings, arg \in Messages :
          LGLogf(a, sev, format, arg)
    \/ \E a \in Adapters, sev \in Severities, msg \in Messages : LGLogWith(a, sev, msg)
    \/ \E a \in Adapters, sev \in Severities, msg \in Messages : LGLogCtx(a, sev, msg)

\* ---- calls on the root adapter that overlap in time: each goroutine runs
\* ---- one call at a time, a step at each access to what they share

\* a goroutine in SetLogLevel: "levelVar" before s.levelVar.Set, "clear"
\* before clearEnabledCache; in a plain log call: "load", "compute", "store"
\* inside isEnabledCached (phase 1 the method's own check, phase 2 that of
\* lazyFormat), "emit" before the slog.Logger call
ThreadStart(t) == lgThreads[t].pc = "idle" /\ ~lgExited /\ lgOps < MaxLogOps

\* where a log call goes after an isEnabledCached of that phase and answer
AfterCheck(phase, enabled) ==
    IF ~enabled THEN [pc |-> "idle", phase |-> 0]
    ELSE IF phase = 1 THEN [pc |-> "load", phase |-> 2]
    ELSE [pc |-> "emit", phase |-> 0]

\* what lgLast records when a log call of goroutine t returns
ThreadLogCall(t, wrote) ==
    [op |-> "log", adapter |-> "root", kind |-> "plain", sev |-> lgThreads[t].sev,
     text |-> <<"a">>, wrote |-> wrote, to |-> IF wrote THEN lgPrimary ELSE "none",
     err |-> FALSE, level |-> lgLogLevel]

\* SetLogLevel: atomic.StoreInt32(&s.logLevel, int32(level))
TSetLogLevelStore(t, level) ==
    /\ ThreadStart(t)
    /\ lgLogLevel' = level
    /\ lgThreads' = [lgThreads EXCEPT ![t].pc = "levelVar", ![t].level = level]
    /\ lgOps' = lgOps + 1
    /\ UNCHANGED <<lgLevelVar, lgFormat, lgOutput, lgPrimary, lgFallback, lgCache,
                   lgDerived, lgSinks, lgReports, lgLast, lgExited, lgErrorHandler, lgOthers>>

\* SetLogLevel: s.levelVar.Set(mapLogLevelToSlog(level))
TSetLogLevelSet(t) ==
    /\ lgThreads[t].pc = "levelVar"
    /\ lgLevelVar' = mapLogLevelToSlog(lgThreads[t].level)
    /\ lgThreads' = [lgThreads EXCEPT ![t].pc = "clear"]
    /\ UNCHANGED <<lgLogLevel, lgFormat, lgOutput, lgPrimary, lgFallback, lgCache,
                   lgDerived, lgSinks, lgReports, lgLast, lgOps, lgExited, lgErrorHandler, lgOthers>>

\* SetLogLevel: s.clearEnabledCache(), under cacheMu.Lock; the call returns
TSetLogLevelClear(t) ==
    /\ lgThreads[t].pc = "clear"
    /\ lgCache' = [lgCache EXCEPT !["root"] = EmptyCache]
    /\ lgThreads' = [lgThreads EXCEPT ![t].pc = "idle"]
    /\ lgLast' = [NoLogCall EXCEPT !.op = "SetLogLevel", !.adapter = "root",
                                   !.level = lgThreads[t].level]
    /\ UNCHANGED <<lgLevelVar, lgLogLevel, lgFormat, lgOutput, lgPrimary, lgFallback,
                   lgDerived, lgSinks, lgReports, lgOps, lgExited, lgErrorHandler, lgOthers>>

\* a plain log call with the message "a" begins: it enters isEnabledCached
TLogCall(t, sev) ==
    /\ ThreadStart(t)
    /\ lgThreads' = [lgThreads EXCEPT ![t].pc = "load", ![t].phase = 1, ![t].sev = sev]
    /\ lgOps' = lgOps + 1
    /\ UNCHANGED <<lgLevelVar, lgLogLevel, lgFormat, lgOutput, lgPrimary, lgFallback,
                   lgCache, lgDerived, lgSinks, lgReports, lgLast, lgExited, lgErrorHandler, lgOthers>>

\* isEnabledCached: s.enabledCache.Load(level) under cacheMu.RLock; a hit is
\* the answer, and the call returns on a cached false
TCheckLoad(t) ==
    LET cached == lgCache["root"][MethodLevel(lgThreads[t].sev)]
        next == AfterCheck(lgThreads[t].phase, cached = "yes")
    IN  /\ lgThreads[t].pc = "load"
        /\ IF cached = "none"
           THEN /\ lgThreads' = [lgThreads EXCEPT ![t].pc = "compute"]
                /\ UNCHANGED lgLast
           ELSE /\ lgThreads' = [lgThreads EXCEPT ![t].pc = next.pc,
                                                  ![t].phase = next.phase]
                /\ lgLast' = IF next.pc = "idle" THEN ThreadLogCall(t, FALSE) ELSE lgLast
        /\ UNCHANGED <<lgLevelVar, lgLogLevel, lgFormat, lgOutput, lgPrimary, lgFallback,
                       lgCache, lgDerived, lgSinks, lgReports, lgOps, lgExited, lgErrorHandler, lgOthers>>

\* isEnabledCached: enabled := s.handler.Enabled(ctx, level), no lock held
TCheckCompute(t) ==
    /\ lgThreads[t].pc = "compute"
    /\ lgThreads' = [lgThreads EXCEPT
                        ![t].pc = "store",
                        ![t].enabled = HandlerEnabled(lgLevelVar, MethodLevel(lgThreads[t].sev))]
    /\ UNCHANGED <<lgLevelVar, lgLogLevel, lgFormat, lgOutput, lgPrimary, lgFallback,
                   lgCache, lgDerived, lgSinks, lgReports, lgLast, lgOps, lgExited, lgErrorHandler, lgOthers>>

\* isEnabledCached: s.enabledCache.Store(level, enabled) under
\* cacheMu.RLock; return enabled
TCheckStore(t) ==
    LET next == AfterCheck(lgThreads[t].phase, lgThreads[t].enabled)
    IN  /\ lgThreads[t].pc = "store"
        /\ lgCache' = [lgCache EXCEPT !["root"][MethodLevel(lgThreads[t].sev)] =
                          IF lgThreads[t].enabled THEN "yes" ELSE "no"]
        /\ lgThreads' = [lgThreads EXCEPT ![t].pc = next.pc, ![t].phase = next.phase]
        /\ lgLast' = IF next.pc = "idle" THEN ThreadLogCall(t, FALSE) ELSE lgLast
        /\ UNCHANGED <<lgLevelVar, lgLogLevel, lgFormat, lgOutput, lgPrimary, lgFallback,
                       lgDerived, lgSinks, lgReports, lgOps, lgExited, lgErrorHandler, lgOthers>>

\* the slog.Logger call: it asks the handler and writes the record; the log
\* call returns
TLogEmit(t) ==
    LET logged == HandlerEnabled(lgLevelVar, MethodLevel(lgThreads[t].sev))
        w == FallbackWriterWrite(lgPrimary, lgFallback)
    IN  /\ lgThreads[t].pc = "emit"
        /\ lgSinks' = IF logged THEN SinksAfter(lgSinks, w.to, lgOps) ELSE lgSinks
        /\ lgThreads' = [lgThreads EXCEPT ![t].pc = "idle"]
        /\ lgLast' = ThreadLogCall(t, logged)
        /\ UNCHANGED <<lgLevelVar, lgLogLevel, lgFormat, lgOutput, lgPrimary, lgFallback,
                       lgCache, lgDerived, lgReports, lgOps, lgExited, lgErrorHandler, lgOthers>>

NextLoggerRace ==
    \E t \in LogThreads :
        \/ \E level \in LogLevels : TSetLogLevelStore(t, level)
        \/ TSetLogLevelSet(t)
        \/ TSetLogLevelClear(t)
        \/ \E sev \in {"Debug", "Info", "Error"} : TLogCall(t, sev)
        \/ TCheckLoad(t)
        \/ TCheckCompute(t)
        \/ TCheckStore(t)
        \/ TLogEmit(t)

\* ---- the output of the root adapter

\* a changed SetOutput: s.output is set, the FallbackWriter keeps its primary
LGSetOutputKeepsPrimary(w) ==
    /\ ~lgExited /\ lgOps < MaxLogOps
    /\ lgOutput' = w
    /\ lgCache' = [lgCache EXCEPT !["root"] = EmptyCache]
    /\ lgLast' = [NoLogCall EXCEPT !.op = "SetOutput", !.adapter = "root", !.to = w]
    /\ lgOps' = lgOps + 1
    /\ UNCHANGED <<lgLevelVar, lgLogLevel, lgFormat, lgPrimary, lgFallback, lgDerived, lgSinks,
                   lgReports, lgExited, lgThreads, lgErrorHandler, lgOthers>>

\* SetOutput(w): s.output = w, s.fallbackWriter.SetPrimary(w),
\* recreateHandler, which makes a handler of the same format and level on
\* the FallbackWriter and clears the enabled cache
LGSetOutput(w) ==
    /\ ~lgExited /\ lgOps < MaxLogOps
    /\ lgOutput' = w
    /\ lgPrimary' = w
    /\ lgCache' = [lgCache EXCEPT !["root"] = EmptyCache]
    /\ lgLast' = [NoLogCall EXCEPT !.op = "SetOutput", !.adapter = "root", !.to = w]
    /\ lgOps' = lgOps + 1
    /\ UNCHANGED <<lgLevelVar, lgLogLevel, lgFormat, lgFallback, lgDerived, lgSinks,
                   lgReports, lgExited, lgThreads, lgErrorHandler, lgOthers>>

\* SetFormat(format): store s.format, recreateHandler
LGSetFormat(format) ==
    /\ ~lgExited /\ lgOps < MaxLogOps
    /\ lgFormat' = format
    /\ lgCache' = [lgCache EXCEPT !["root"] = EmptyCache]
    /\ lgLast' = [NoLogCall EXCEPT !.op = "SetFormat", !.adapter = "root"]
    /\ lgOps' = lgOps + 1
    /\ UNCHANGED <<lgLevelVar, lgLogLevel, lgOutput, lgPrimary, lgFallback, lgDerived,
                   lgSinks, lgReports, lgExited, lgThreads, lgErrorHandler, lgOthers>>

\* SetFallbackWriter(w): s.fallbackWriter.SetFallback(w)
LGSetFallbackWriter(w) ==
    /\ ~lgExited /\ lgOps < MaxLogOps
    /\ lgFallback' = w
    /\ lgLast' = [NoLogCall EXCEPT !.op = "SetFallbackWriter", !.adapter = "root", !.to = w]
    /\ lgOps' = lgOps + 1
    /\ UNCHANGED <<lgLevelVar, lgLogLevel, lgFormat, lgOutput, lgPrimary, lgCache,
                   lgDerived, lgSinks, lgReports, lgExited, lgThreads, lgErrorHandler, lgOthers>>

\* the handlers SetErrorHandler is called with: a handler of the caller, and
\* nil, which stands for a DefaultErrorHandler
ErrorHandlers == {"custom", "nil"}

\* SetErrorHandler(handler): s.errorHandler = handler, a new FallbackWriter
\* made of s.output, os.Stderr and the handler, recreateHandler
LGSetErrorHandler(handler) ==
    /\ ~lgExited /\ lgOps < MaxLogOps
    /\ lgErrorHandler' = IF handler = "nil" THEN "default" ELSE handler
    /\ lgPrimary' = lgOutput
    /\ lgFallback' = "stderr"
    /\ lgCache' = [lgCache EXCEPT !["root"] = EmptyCache]
    /\ lgLast' = [NoLogCall EXCEPT !.op = "SetErrorHandler", !.adapter = "root"]
    /\ lgOps' = lgOps + 1
    /\ UNCHANGED <<lgLevelVar, lgLogLevel, lgFormat, lgOutput, lgDerived, lgSinks,
                   lgReports, lgExited, lgThreads, lgOthers>>

\* the changes of output, format, fallback and level, and Info and Error
\* calls with a message on the root adapter
NextLogOutput ==
    \/ \E w \in Writers : LGSetOutput(w)
    \/ \E format \in Formats : LGSetFormat(format)
    \/ \E w \in Writers : LGSetFallbackWriter(w)
    \/ \E handler \in ErrorHandlers : LGSetErrorHandler(handler)
    \/ \E level \in LogLevels : LGSetLogLevel(level)
    \/ \E sev \in {"Info", "Error"} : LGLog("root", sev, <<"a">>)
    \/ \E sev \in {"Info", "Error"} : LGLogWith("root", sev, <<"a">>)

-----------------------------------------------------------------------------
(***************************************************************************)
(* The default logger of the process: proxy/proxy.go,                      *)
(* NewProxyFromConfigData and logLevelFromConfig                           *)
(***************************************************************************)

cfOthers == <<routerVars, redirVars, closeVars, relayVars, ssVars, htVars,
              rtVars, ncVars, mnVars, pkVars, lgVars, finalVars>>

\* slog.Level(1000)
LevelConfigOff == 1000

logLevelFromConfig(level) ==
    CASE level = 0 -> LevelDebug
      [] level = 1 -> LevelInfo
      [] level = 2 -> LevelWarn
      [] level = 3 -> LevelError
      [] level = 4 -> LevelError
      [] level = 5 -> LevelConfigOff
      [] OTHER -> LevelInfo

\* the values of log_level: 0..5 and one outside
MaxConfigLogLevel == 6
ConfigLogLevels == 0..MaxConfigLogLevel

\* slog.Debug, slog.Info, slog.Warn, slog.Error
SlogSeverities == {"Debug", "Info", "Warn", "Error"}

InitConfigLog ==
    /\ cfLogLevel \in ConfigLogLevels
    /\ cfHandler = [set |-> FALSE, level |-> LevelInfo]
    /\ cfEmitted = [sev \in SlogSeverities |-> "untried"]

ConfigLogIdle ==
    /\ cfLogLevel = 1
    /\ cfHandler = [set |-> FALSE, level |-> LevelInfo]
    /\ cfEmitted = [sev \in SlogSeverities |-> "untried"]

\* NewProxyFromConfigData: slog.SetDefault(slog.New(slog.NewTextHandler(
\* output, &slog.HandlerOptions{Level: logLevelFromConfig(cfg.LogLevel)})))
CFSetDefault ==
    /\ ~cfHandler.set
    /\ cfHandler' = [set |-> TRUE, level |-> logLevelFromConfig(cfLogLevel)]
    /\ UNCHANGED <<cfLogLevel, cfEmitted, cfOthers>>

\* slog.Debug, Info, Warn or Error on the default logger: the record is
\* emitted iff its level is at or above the handler's Level
CFLog(sev) ==
    /\ cfHandler.set
    /\ cfEmitted[sev] = "untried"
    /\ cfEmitted' = [cfEmitted EXCEPT ![sev] =
                        IF HandlerEnabled(cfHandler.level, MethodLevel(sev))
                        THEN "yes" ELSE "no"]
    /\ UNCHANGED <<cfLogLevel, cfHandler, cfOthers>>

NextConfigLog ==
    \/ CFSetDefault
    \/ \E sev \in SlogSeverities : CFLog(sev)

-----------------------------------------------------------------------------
(***************************************************************************)
(* The logger registry: package log, RegisterLogger and the global         *)
(* functions (unnamed/part_008), with the loggers that can be registered   *)
(***************************************************************************)

rgOthers == <<routerVars, redirVars, closeVars, relayVars, ssVars, htVars,
              rtVars, ncVars, mnVars, pkVars, lgVars, cfVars, dpVars, tlVars, mdVars,
              lvVars>>

\* the loggers of a program: the EmptyLogger the package starts with, a second
\* EmptyLogger, simplelog's SimpleLogger and a SlogAdapter
Loggers == {"empty", "custom", "simple", "adapter"}

IsEmptyLogger(l) == l \in {"empty", "custom"}

\* the loggers that keep a level
LevelLoggers == {"simple", "adapter"}

\* the writers SetOutput is called with
RegistryWriters == Buffers

\* the global calls one run makes
MaxRegistryOps == 4

NoRegistryCall ==
    [op |-> "none", target |-> "none", sev |-> "none", wrote |-> FALSE,
     to |-> "none", result |-> "none"]

\* var logger Logger = &EmptyLogger{}; a SimpleLogger starts with the zero
\* level, a SlogAdapter with INFO and os.Stderr
InitRegistry ==
    /\ rgLogger = "empty"
    /\ rgRegistered = <<>>
    /\ rgLevel = [l \in LevelLoggers |-> IF l = "simple" THEN AllLevel ELSE InfoLevel]
    /\ rgOutput = "stderr"
    /\ rgSinks = [w \in Buffers \cup {"stderr"} |-> <<>>]
    /\ rgLast = NoRegistryCall
    /\ rgOps = 0
    /\ rgExited = FALSE

RegistryIdle == InitRegistry

\* the level a SimpleLogger method compares logLevel with
SimpleLoggerLevel(sev) ==
    CASE sev = "Fatal" -> FatalLevel
      [] sev = "Error" -> ErrorLevel
      [] sev = "Warn" -> WarnLevel
      [] sev = "Info" -> InfoLevel
      [] sev = "Debug" -> AllLevel
      [] sev = "Trace" -> AllLevel

\* a method of that severity called on logger l: the writer a record went
\* to, "none" when the logger wrote nothing
LoggerWrites(l, sev, levels, output) ==
    IF IsEmptyLogger(l) THEN "none"
    ELSE IF l = "simple"
         THEN IF levels[l] <= SimpleLoggerLevel(sev) THEN "stderr" ELSE "none"
         ELSE IF HandlerEnabled(mapLogLevelToSlog(levels[l]), MethodLevel(sev))
              THEN output ELSE "none"

\* WithAttrs or WithGroup called on logger l: what it returns
LoggerWith(l) == IF l = "adapter" THEN "derived" ELSE l

RegistryRunning == ~rgExited /\ rgOps < MaxRegistryOps

\* a changed RegisterLogger: the first logger registered stays
RGRegisterLoggerOnce(l) ==
    /\ RegistryRunning
    /\ rgLogger' = IF rgRegistered = <<>> THEN l ELSE rgLogger
    /\ rgRegistered' = Append(rgRegistered, l)
    /\ rgLast' = [NoRegistryCall EXCEPT !.op = "RegisterLogger", !.target = l]
    /\ rgOps' = rgOps + 1
    /\ UNCHANGED <<rgLevel, rgOutput, rgSinks, rgExited, rgOthers>>

\* RegisterLogger(l)
RGRegisterLogger(l) ==
    /\ RegistryRunning
    /\ rgLogger' = l
    /\ rgRegistered' = Append(rgRegistered, l)
    /\ rgLast' = [NoRegistryCall EXCEPT !.op = "RegisterLogger", !.target = l]
    /\ rgOps' = rgOps + 1
    /\ UNCHANGED <<rgLevel, rgOutput, rgSinks, rgExited, rgOthers>>

\* SetLogLevel(level): logger.SetLogLevel(level); an EmptyLogger keeps nothing
RGSetLogLevel(level) ==
    /\ RegistryRunning
    /\ rgLevel' = IF rgLogger \in LevelLoggers
                  THEN [rgLevel EXCEPT ![rgLogger] = level] ELSE rgLevel
    /\ rgLast' = [NoRegistryCall EXCEPT !.op = "SetLogLevel", !.target = rgLogger]
    /\ rgOps' = rgOps + 1
    /\ UNCHANGED <<rgLogger, rgRegistered, rgOutput, rgSinks, rgExited, rgOthers>>

\* SetOutput(w): logger.SetOutput(w); only a SlogAdapter keeps the writer
RGSetOutput(w) ==
    /\ RegistryRunning
    /\ rgOutput' = IF rgLogger = "adapter" THEN w ELSE rgOutput
    /\ rgLast' = [NoRegistryCall EXCEPT !.op = "SetOutput", !.target = rgLogger,
                                        !.to = w]
    /\ rgOps' = rgOps + 1
    /\ UNCHANGED <<rgLogger, rgRegistered, rgLevel, rgSinks, rgExited, rgOthers>>

\* Fatal, Error, Warn, Info, Debug, Trace and their f, With and Ctx forms, with
\* a message that is not empty: the method of that name of logger; Fatal ends
\* the process
RGLog(sev) ==
    LET to == LoggerWrites(rgLogger, sev, rgLevel, rgOutput)
    IN  /\ RegistryRunning
        /\ rgSinks' = IF to = "none" THEN rgSinks
                      ELSE [rgSinks EXCEPT ![to] = Append(@, rgLogger)]
        /\ rgExited' = (sev = "Fatal")
        /\ rgLast' = [NoRegistryCall EXCEPT !.op = "Log", !.target = rgLogger,
                                            !.sev = sev, !.wrote = (to # "none"),
                                            !.to = to]
        /\ rgOps' = rgOps + 1
        /\ UNCHANGED <<rgLogger, rgRegistered, rgLevel, rgOutput, rgOthers>>

\* WithAttrs(attrs...): logger.WithAttrs(attrs...)
RGWithAttrs ==
    /\ RegistryRunning
    /\ rgLast' = [NoRegistryCall EXCEPT !.op = "WithAttrs", !.target = rgLogger,
                                        !.result = LoggerWith(rgLogger)]
    /\ rgOps' = rgOps + 1
    /\ UNCHANGED <<rgLogger, rgRegistered, rgLevel, rgOutput, rgSinks, rgExited,
                   rgOthers>>

\* WithGroup(name): logger.WithGroup(name)
RGWithGroup ==
    /\ RegistryRunning
    /\ rgLast' = [NoRegistryCall EXCEPT !.op = "WithGroup", !.target = rgLogger,
                                        !.result = LoggerWith(rgLogger)]
    /\ rgOps' = rgOps + 1
    /\ UNCHANGED <<rgLogger, rgRegistered, rgLevel, rgOutput, rgSinks, rgExited,
                   rgOthers>>

NextRegistry ==
    \/ \E l \in Loggers : RGRegisterLogger(l)
    \/ \E level \in LogLevels : RGSetLogLevel(level)
    \/ \E w \in RegistryWriters : RGSetOutput(w)
    \/ \E sev \in Severities : RGLog(sev)
    \/ RGWithAttrs
    \/ RGWithGroup

-----------------------------------------------------------------------------
(***************************************************************************)
(* Router Client.DialPacket: tunnel/router/client.go                       *)
(***************************************************************************)

dpOthers == <<routerVars, redirVars, closeVars, relayVars, ssVars, htVars,
              rtVars, ncVars, mnVars, pkVars, lgVars, cfVars, rgVars, tlVars, mdVars,
              lvVars>>

\* the goroutines that call DialPacket
MaxPacketDialers == 3
PacketDialers == 1..MaxPacketDialers

\* a caller outside DialPacket: directConn and proxy are "none", "open" or
\* "closed"; loop says that packetLoop was started
IdleDial ==
    [pc |-> "idle", directConn |-> "none", proxy |-> "none", loop |-> FALSE,
     result |-> "none"]

InitDialPacket == dpCalls = [i \in PacketDialers |-> IdleDial]

DialPacketIdle == InitDialPacket

\* DialPacket is entered
DPCall(i) ==
    /\ dpCalls[i].pc = "idle"
    /\ dpCalls' = [dpCalls EXCEPT ![i].pc = "listen"]
    /\ UNCHANGED dpOthers

\* net.ListenPacket("udp", ""): the socket, or the error DialPacket returns
DPListenPacket(i, ok) ==
    /\ dpCalls[i].pc = "listen"
    /\ dpCalls' = [dpCalls EXCEPT ![i] =
                      IF ok
                      THEN [@ EXCEPT !.pc = "dialProxy", !.directConn = "open"]
                      ELSE [@ EXCEPT !.pc = "returned", !.result = "error"]]
    /\ UNCHANGED dpOthers

\* c.underlay.DialPacket(overlay): the packet conn, or the error DialPacket
\* returns
DPUnderlayDialPacket(i, ok) ==
    /\ dpCalls[i].pc = "dialProxy"
    /\ dpCalls' = [dpCalls EXCEPT ![i] =
                      IF ok
                      THEN [@ EXCEPT !.pc = "make", !.proxy = "open"]
                      ELSE [@ EXCEPT !.pc = "returned", !.result = "error"]]
    /\ UNCHANGED dpOthers

\* the PacketConn is made, go conn.packetLoop(), return conn, nil
DPStartLoop(i) ==
    /\ dpCalls[i].pc = "make"
    /\ dpCalls' = [dpCalls EXCEPT ![i] =
                      [@ EXCEPT !.pc = "returned", !.loop = TRUE, !.result = "conn"]]
    /\ UNCHANGED dpOthers

NextDialPacket ==
    \/ \E i \in PacketDialers : DPCall(i)
    \/ \E i \in PacketDialers, ok \in BOOLEAN : DPListenPacket(i, ok)
    \/ \E i \in PacketDialers, ok \in BOOLEAN : DPUnderlayDialPacket(i, ok)
    \/ \E i \in PacketDialers : DPStartLoop(i)

-----------------------------------------------------------------------------
(***************************************************************************)
(* TLS Client.DialConn: tunnel/tls/client.go                               *)
(***************************************************************************)

tlOthers == <<routerVars, redirVars, closeVars, relayVars, ssVars, htVars,
              rtVars, ncVars, mnVars, pkVars, lgVars, cfVars, rgVars, dpVars, mdVars,
              lvVars>>

\* the goroutines that call DialConn
MaxTLSDialers == 2
TLSDialers == 1..MaxTLSDialers

\* the address the layer above passes to DialConn
UpperAddresses == {"nil", "example.com:443", "10.0.0.1:80"}

\* c.fingerprint: empty (crypto/tls is used) or set (utls is used)
Fingerprints == {"", "chrome"}

\* a caller outside DialConn: address is what it was called with, dialed what
\* it passed to the underlay, conn the connection the underlay returned
IdleTLSDial ==
    [pc |-> "idle", address |-> "none", fingerprint |-> "", dialed |-> "none",
     conn |-> "none", library |-> "none", result |-> "none"]

InitTLSDial == tlCalls = [i \in TLSDialers |-> IdleTLSDial]

TLSDialIdle == InitTLSDial

\* DialConn(address, overlay) is entered, on a client with that fingerprint
TLDialConn(i, address, fingerprint) ==
    /\ tlCalls[i].pc = "idle"
    /\ tlCalls' = [tlCalls EXCEPT ![i] =
                      [IdleTLSDial EXCEPT !.pc = "dial", !.address = address,
                                          !.fingerprint = fingerprint]]
    /\ UNCHANGED tlOthers

\* c.underlay.DialConn(nil, &Tunnel{}): the connection, or the error DialConn
\* returns
TLUnderlayDialConn(i, ok) ==
    /\ tlCalls[i].pc = "dial"
    /\ tlCalls' = [tlCalls EXCEPT ![i] =
                      IF ok
                      THEN [@ EXCEPT !.pc = "handshake", !.dialed = "nil",
                                     !.conn = "open"]
                      ELSE [@ EXCEPT !.pc = "returned", !.dialed = "nil",
                                     !.result = "error"]]
    /\ UNCHANGED tlOthers

\* tlsConn.Handshake() of utls.UClient when a fingerprint is set, of
\* tls.Client otherwise: the connection is returned wrapped, or the error is
\* returned
TLHandshake(i, ok) ==
    /\ tlCalls[i].pc = "handshake"
    /\ tlCalls' = [tlCalls EXCEPT ![i] =
                      [@ EXCEPT !.pc = "returned",
                                !.library = IF tlCalls[i].fingerprint # ""
                                            THEN "utls" ELSE "tls",
                                !.result = IF ok THEN "conn" ELSE "error"]]
    /\ UNCHANGED tlOthers

NextTLSDial ==
    \/ \E i \in TLSDialers, address \in UpperAddresses, fingerprint \in Fingerprints :
          TLDialConn(i, address, fingerprint)
    \/ \E i \in TLSDialers, ok \in BOOLEAN : TLUnderlayDialConn(i, ok)
    \/ \E i \in TLSDialers, ok \in BOOLEAN : TLHandshake(i, ok)

-----------------------------------------------------------------------------
(***************************************************************************)
(* matchDomain over the rule lists NewClient takes from a geosite table:   *)
(* tunnel/router/client.go                                                 *)
(***************************************************************************)

mdOthers == <<routerVars, redirVars, closeVars, relayVars, ssVars, htVars,
              rtVars, ncVars, mnVars, pkVars, lgVars, cfVars, rgVars, dpVars,
              tlVars, lvVars>>

\* the longest list of geosite rules
MaxSiteRules == 2

\* the rules a geosite table may hold: NewClient appends them as they are,
\* so a Regex rule may hold a pattern that does not compile and the type may
\* be one matchDomain does not know
SiteRules ==
    { [type |-> "Full",    value |-> Name_a],
      [type |-> "Domain",  value |-> Name_a],
      [type |-> "Plain",   value |-> <<"b">>],
      [type |-> "Regex",   value |-> <<"a", ".">>],
      [type |-> "Regex",   value |-> <<"(">>],
      [type |-> "Unknown", value |-> Name_a] }

SiteLists == SeqsUpTo(SiteRules, MaxSiteRules)

SiteTargets == {Name_a, Name_ba, Name_ab, Name_c}

\* client.domains[policy] after NewClient, and the name of a destination
InitMatchDomain ==
    \E list \in SiteLists, target \in SiteTargets :
        mdCall = [list |-> list, target |-> target, done |-> FALSE, result |-> FALSE]

MatchDomainIdle ==
    mdCall = [list |-> <<>>, target |-> <<>>, done |-> FALSE, result |-> FALSE]

\* matchDomain(list, target) is called and returns
MDMatch ==
    /\ ~mdCall.done
    /\ mdCall' = [mdCall EXCEPT !.done = TRUE,
                                !.result = matchDomain(mdCall.list, mdCall.target)]
    /\ UNCHANGED mdOthers

NextMatchDomain == MDMatch

-----------------------------------------------------------------------------
(***************************************************************************)
(* The level and format conversions of the slog adapter: unnamed/part_006  *)
(* and unnamed/part_007                                                    *)
(***************************************************************************)

lvOthers == <<routerVars, redirVars, closeVars, relayVars, ssVars, htVars,
              rtVars, ncVars, mnVars, pkVars, lgVars, cfVars, rgVars, dpVars,
              tlVars, mdVars>>

\* mapSlogLevelToLogLevel(level)
mapSlogLevelToLogLevel(level) ==
    CASE level <= LevelTrace -> AllLevel
      [] level <= LevelDebug -> AllLevel
      [] level <= LevelInfo -> InfoLevel
      [] level <= LevelWarn -> WarnLevel
      [] level <= LevelError -> ErrorLevel
      [] level <= LevelFatal -> FatalLevel
      [] OTHER -> OffLevel

\* LogFormat
TextFormat == 0
JSONFormat == 1
ColoredFormat == 2

LogFormats == {TextFormat, JSONFormat, ColoredFormat}

\* LogFormat.String()
LogFormatString(f) ==
    CASE f = TextFormat -> "text"
      [] f = JSONFormat -> "json"
      [] f = ColoredFormat -> "colored"
      [] OTHER -> "unknown"

\* a changed ParseLogFormat: the name of the colored format is not known
ParseLogFormatNoColored(s) ==
    CASE s = "text" -> TextFormat
      [] s = "json" -> JSONFormat
      [] OTHER -> TextFormat

\* ParseLogFormat(s)
ParseLogFormat(s) ==
    CASE s = "text" -> TextFormat
      [] s = "json" -> JSONFormat
      [] s = "colored" -> ColoredFormat
      [] OTHER -> TextFormat

\* the largest LogLevel and LogFormat value a caller passes: one past the
\* named ones
MaxLevelInput == 6
MaxFormatInput == 3

\* the strings ParseLogFormat is called with
FormatNames == {"text", "json", "colored", "unknown", "", "JSON", "Text"}

NoConversion == 0 - 1

InitLevelMap ==
    \E level \in 0..MaxLevelInput, other \in 0..MaxLevelInput,
       format \in 0..MaxFormatInput, name \in FormatNames :
        lvCall = [level |-> level, slog |-> NoConversion, back |-> NoConversion,
                  other |-> other, slogOther |-> NoConversion,
                  format |-> format, string |-> "none", reparsed |-> NoConversion,
                  name |-> name, parsed |-> NoConversion]

LevelMapIdle ==
    lvCall = [level |-> 0, slog |-> NoConversion, back |-> NoConversion,
              other |-> 0, slogOther |-> NoConversion,
              format |-> 0, string |-> "none", reparsed |-> NoConversion,
              name |-> "", parsed |-> NoConversion]

\* mapLogLevelToSlog of the two levels, and mapSlogLevelToLogLevel of the
\* first result
LVMapLevel ==
    /\ lvCall.slog = NoConversion
    /\ lvCall' = [lvCall EXCEPT
                     !.slog = mapLogLevelToSlog(lvCall.level),
                     !.slogOther = mapLogLevelToSlog(lvCall.other),
                     !.back = mapSlogLevelToLogLevel(mapLogLevelToSlog(lvCall.level))]
    /\ UNCHANGED lvOthers

\* format.String(), and ParseLogFormat of the result
LVFormatString ==
    /\ lvCall.string = "none"
    /\ lvCall' = [lvCall EXCEPT
                     !.string = LogFormatString(lvCall.format),
                     !.reparsed = ParseLogFormat(LogFormatString(lvCall.format))]
    /\ UNCHANGED lvOthers

\* ParseLogFormat(name)
LVParseLogFormat ==
    /\ lvCall.parsed = NoConversion
    /\ lvCall' = [lvCall EXCEPT !.parsed = ParseLogFormat(lvCall.name)]
    /\ UNCHANGED lvOthers

NextLevelMap == LVMapLevel \/ LVFormatString \/ LVParseLogFormat

-----------------------------------------------------------------------------
(***************************************************************************)
(* The specifications                                                      *)
(***************************************************************************)

\* the subsystems below the datagram relay at rest
\* the subsystems below the default logger at rest
FinalIdle ==
    RegistryIdle /\ DialPacketIdle /\ TLSDialIdle /\ MatchDomainIdle /\ LevelMapIdle

LaterIdle == LoggerIdle /\ ConfigLogIdle /\ FinalIdle

\* the subsystems below the http server at rest
RestIdle == RouterCallsIdle /\ NewClientIdle /\ MainIdle /\ PacketRelayIdle /\ LaterIdle

InitRoute ==
    InitRouter /\ RedirectorIdle /\ CloseIdle /\ RelayIdle /\ SimplesocksIdle /\ HttpIdle
    /\ RestIdle
SpecRoute == InitRoute /\ [][NextRoute]_vars

InitRedirect ==
    RouterIdle /\ InitRedirector /\ CloseIdle /\ RelayIdle /\ SimplesocksIdle /\ HttpIdle
    /\ RestIdle
SpecRedirector == InitRedirect /\ [][NextRedirector]_vars

InitClosing ==
    RouterIdle /\ RedirectorIdle /\ InitClose /\ RelayIdle /\ SimplesocksIdle /\ HttpIdle
    /\ RestIdle
SpecClose == InitClosing /\ [][NextClose]_vars

InitRelaying ==
    RouterIdle /\ RedirectorIdle /\ CloseIdle /\ InitRelay /\ SimplesocksIdle /\ HttpIdle
    /\ RestIdle
SpecRelay == InitRelaying /\ [][NextRelay]_vars
FairSpecRelay == SpecRelay /\ RelayFairness

InitSimplesocksServer ==
    RouterIdle /\ RedirectorIdle /\ CloseIdle /\ RelayIdle /\ InitSimplesocks /\ HttpIdle
    /\ RestIdle
SpecSimplesocks == InitSimplesocksServer /\ [][NextSimplesocks]_vars

InitHttpServer ==
    RouterIdle /\ RedirectorIdle /\ CloseIdle /\ RelayIdle /\ SimplesocksIdle /\ InitHttp
    /\ RestIdle
SpecHttp == InitHttpServer /\ [][NextHttp]_vars

InitCalls ==
    RedirectorIdle /\ CloseIdle /\ RelayIdle /\ SimplesocksIdle /\ HttpIdle
    /\ InitRouterCalls /\ NewClientIdle /\ MainIdle /\ PacketRelayIdle
    /\ LaterIdle
SpecRouterCalls == InitCalls /\ [][NextRouterCalls]_vars

InitConstruction ==
    RouterIdle /\ RedirectorIdle /\ CloseIdle /\ RelayIdle /\ SimplesocksIdle /\ HttpIdle
    /\ RouterCallsIdle /\ InitNewClient /\ MainIdle /\ PacketRelayIdle
    /\ LaterIdle
SpecNewClient == InitConstruction /\ [][NextNewClient]_vars

InitProcess ==
    RouterIdle /\ RedirectorIdle /\ CloseIdle /\ RelayIdle /\ SimplesocksIdle /\ HttpIdle
    /\ RouterCallsIdle /\ NewClientIdle /\ InitMain /\ PacketRelayIdle
    /\ LaterIdle
SpecMain == InitProcess /\ [][NextMain]_vars

InitPacketRelaying ==
    RouterIdle /\ RedirectorIdle /\ CloseIdle /\ RelayIdle /\ SimplesocksIdle /\ HttpIdle
    /\ RouterCallsIdle /\ NewClientIdle /\ MainIdle /\ InitPacketRelay
    /\ LaterIdle
SpecPacketRelay == InitPacketRelaying /\ [][NextPacketRelay]_vars
FairSpecPacketRelay == SpecPacketRelay /\ PacketRelayFairness

\* the subsystems above the slog adapter at rest
EarlierIdle ==
    RouterIdle /\ RedirectorIdle /\ CloseIdle /\ RelayIdle /\ SimplesocksIdle /\ HttpIdle
    /\ RouterCallsIdle /\ NewClientIdle /\ MainIdle /\ PacketRelayIdle

InitLogging == EarlierIdle /\ InitLogger /\ ConfigLogIdle /\ FinalIdle
SpecLogger == InitLogging /\ [][NextLogger]_vars

InitLogOutput == EarlierIdle /\ InitLogger /\ ConfigLogIdle /\ FinalIdle
SpecLogOutput == InitLogOutput /\ [][NextLogOutput]_vars

InitLoggingRace == EarlierIdle /\ InitLogger /\ ConfigLogIdle /\ FinalIdle
SpecLoggerRace == InitLoggingRace /\ [][NextLoggerRace]_vars

InitConfigLogging == EarlierIdle /\ LoggerIdle /\ InitConfigLog /\ FinalIdle
SpecConfigLog == InitConfigLogging /\ [][NextConfigLog]_vars

\* the slog adapter and the default logger at rest
LoggingIdle == LoggerIdle /\ ConfigLogIdle

\* the pure functions at rest
FunctionsIdle == MatchDomainIdle /\ LevelMapIdle

InitRegistering ==
    EarlierIdle /\ LoggingIdle /\ InitRegistry /\ DialPacketIdle /\ TLSDialIdle
    /\ FunctionsIdle
SpecRegistry == InitRegistering /\ [][NextRegistry]_vars

InitDialingPacket ==
    EarlierIdle /\ LoggingIdle /\ RegistryIdle /\ InitDialPacket /\ TLSDialIdle
    /\ FunctionsIdle
SpecDialPacket == InitDialingPacket /\ [][NextDialPacket]_vars

InitTLSDialing ==
    EarlierIdle /\ LoggingIdle /\ RegistryIdle /\ DialPacketIdle /\ InitTLSDial
    /\ FunctionsIdle
SpecTLSDial == InitTLSDialing /\ [][NextTLSDial]_vars

\* the stateful subsystems below the default logger at rest
CallsIdle == RegistryIdle /\ DialPacketIdle /\ TLSDialIdle

InitMatching ==
    EarlierIdle /\ LoggingIdle /\ CallsIdle /\ InitMatchDomain /\ LevelMapIdle
SpecMatchDomain == InitMatching /\ [][NextMatchDomain]_vars

InitConverting ==
    EarlierIdle /\ LoggingIdle /\ CallsIdle /\ MatchDomainIdle /\ InitLevelMap
SpecLevelMap == InitConverting /\ [][NextLevelMap]_vars

-----------------------------------------------------------------------------
(***************************************************************************)
(* Properties of the accept loops and accept queues                        *)
(***************************************************************************)

\* C2: after the root context is cancelled every accept loop and every task
\* terminates and none stays blocked for ever: when nothing can move any
\* more, the simplesocks acceptLoop and the relay loops on it have returned.
C2_TasksEndAfterCancel ==
    (ssCtxDone /\ ~ENABLED NextSimplesocks) =>
        /\ ssLoop = "exited"
        /\ ssRelayConn = "exited"
        /\ ssRelayPacket = "exited"

\* C3: once the context is cancelled no accept loop accepts a further
\* connection: the simplesocks acceptLoop takes none from its underlay and
\* the relay loops take none from the server's queues.
C3_NoAcceptAfterCancel ==
    [][ ssCtxDone =>
            /\ ssUnderlay'.pending >= ssUnderlay.pending
            /\ ssConnChan' >= ssConnChan
            /\ ssPacketChan' >= ssPacketChan ]_vars

\* C6: an accept queue holds at most 32 connections, and while it is full the
\* layer accepts no further connection from its underlay: for the http
\* server, whose tasks fill s.connChan.
C6_FullQueueStopsAccept ==
    [][ /\ htConnChan' <= HttpConnChanCap
        /\ htConnChan = HttpConnChanCap =>
               htUnderlay'.pending >= htUnderlay.pending ]_vars

-----------------------------------------------------------------------------
(***************************************************************************)
(* Properties of the proxy stream relay                                    *)
(***************************************************************************)

\* a relay worker has returned with none of its connections left open
RelayEndedClosed(w) ==
    /\ pxRelays[w].inbound = "closed"
    /\ pxRelays[w].outbound \in {"none", "closed"}

\* C1: no relay worker ends while one of its two connections is open; once a
\* copy task has returned or the context is cancelled, the worker closes the
\* inbound and the outbound connection; and the close unblocks the copy task
\* that is still running, so that the worker's goroutines all end.
C1_RelayClosesBoth ==
    /\ [](\A w \in Relays : pxRelays[w].pc = "returned" => RelayEndedClosed(w))
    /\ \A w \in Relays :
           (pxRelays[w].pc = "select" /\ (pxRelays[w].errChan > 0 \/ pxCtxDone))
               ~> (pxRelays[w].inbound = "closed" /\ pxRelays[w].outbound = "closed")
    /\ \A w \in Relays :
           (pxRelays[w].pc = "returned") ~> (pxRelays[w].pc = "free")

\* C1's case: a worker has returned after the first copy task ended, both
\* connections are closed and the other copy task is still in io.Copy.
C1_Witness ==
    \E w \in Relays :
        /\ pxRelays[w].pc = "returned"
        /\ pxRelays[w].inbound = "closed" /\ pxRelays[w].outbound = "closed"
        /\ \E t \in 1..2 : pxRelays[w].copies[t] = "run"
        /\ \E t \in 1..2 : pxRelays[w].copies[t] = "done"

\* worker w returns in this step
RelayReturns(w) == pxRelays[w].pc # "returned" /\ pxRelays'[w].pc = "returned"

\* C17: when the dial of the sink fails for an accepted inbound stream, no
\* copy task is started and no outbound connection exists, the inbound
\* connection is closed, and the accept loop keeps running.
C17_DialFailureClosesInbound ==
    /\ [](\A w \in Relays :
             pxRelays[w].outbound = "none" =>
                 (pxRelays[w].copies = <<"none", "none">> /\ pxRelays[w].errChan = 0))
    /\ [][ \A w \in Relays :
               (pxRelays[w].pc = "dial" /\ RelayReturns(w)) =>
                   /\ pxRelays'[w].inbound = "closed"
                   /\ pxRelays'[w].outbound = "none"
                   /\ pxRelays'[w].copies = <<"none", "none">>
                   /\ pxLoop' = pxLoop ]_vars

\* C17's case: a worker has returned from a failed dial with its inbound
\* connection closed, the context is live and the loop is accepting.
C17_Witness ==
    /\ ~pxCtxDone /\ pxLoop = "accept"
    /\ \E w \in Relays :
           /\ pxRelays[w].pc = "returned"
           /\ pxRelays[w].outbound = "none"
           /\ pxRelays[w].inbound = "closed"

\* C18: a failure inside one relay (dial error, copy error) or a failed accept
\* while the context is not cancelled never ends the supervisor: the accept
\* loop stays in its loop, and a worker that returns changes nothing of the
\* other relays, whose connections stay as they are.
C18_FailuresStayInTheirRelay ==
    /\ [][ (pxLoop = "accept" /\ ~pxCtxDone) => pxLoop' = "accept" ]_vars
    /\ [][ \A w \in Relays :
               RelayReturns(w) =>
                   /\ pxLoop' = pxLoop
                   /\ \A v \in Relays \ {w} : pxRelays'[v] = pxRelays[v] ]_vars

\* C18's case: one worker has returned after a copy task ended with the
\* context live, the loop is accepting, and the other worker's relay goes on
\* with both connections open.
C18_Witness ==
    /\ ~pxCtxDone /\ pxLoop = "accept"
    /\ \E w, v \in Relays :
           /\ w # v
           /\ pxRelays[w].pc = "returned" /\ pxRelays[w].outbound = "closed"
           /\ pxRelays[v].pc = "select"
           /\ pxRelays[v].inbound = "open" /\ pxRelays[v].outbound = "open"

-----------------------------------------------------------------------------
(***************************************************************************)
(* Properties of Close                                                     *)
(***************************************************************************)

\* C7: shutdown is idempotent: a second Close of the proxy or of a layer is a
\* no-op; it causes no further effect on what lies below, so that no
\* underlay, sink, source, key logger or metrics server is closed twice.
C7_SecondCloseIsNoOp == \A b \in Below : clBelow[b] <= 1

\* the Close of layer l runs in this step
Closes(l) == clCalls'[l] = clCalls[l] + 1

\* this step calls Close once on object b
ClosesBelow(b) == clBelow'[b] = clBelow[b] + 1

\* C22: closing a layer closes the layer below it: the Close of the http
\* server, the simplesocks server and the router client cancel their own
\* context and call Close on their underlay, that of the tls client (which
\* has no context) calls Close on its underlay, and Proxy.Close cancels the
\* root context and closes the sink and every source.
C22_CloseClosesBelow ==
    [][ /\ \A l \in {"http", "simplesocks", "router"} :
               Closes(l) => /\ l \in clCancelled'
                            /\ \/ l = "http" /\ ClosesBelow("http.underlay")
                               \/ l = "simplesocks" /\ ClosesBelow("simplesocks.underlay")
                               \/ l = "router" /\ ClosesBelow("router.underlay")
        /\ Closes("tls") => ClosesBelow("tls.underlay")
        /\ Closes("proxy") => /\ "proxy" \in clCancelled'
                              /\ ClosesBelow("proxy.sink")
                              /\ ClosesBelow("proxy.sources") ]_vars

\* C22's case: the proxy and the four layers have each been closed once;
\* every context is cancelled and every underlay, the sink and the sources
\* have had one Close.
C22_Witness ==
    /\ \A l \in {"proxy", "http", "simplesocks", "router", "tls"} : clCalls[l] = 1
    /\ {"proxy", "http", "simplesocks", "router"} \subseteq clCancelled
    /\ \A b \in {"proxy.sink", "proxy.sources", "http.underlay",
                  "simplesocks.underlay", "router.underlay", "tls.underlay"} :
           clBelow[b] = 1

-----------------------------------------------------------------------------
(***************************************************************************)
(* Properties of the redirector                                            *)
(***************************************************************************)

\* Redirect(i) can return: one of the cases of its select is ready
RedirectCanReturn(i) == ENABLED (RedirectSend(i) \/ RedirectCancelled(i))

\* C4: every non-nil inbound connection handed to Redirect is closed in the
\* end, and the outbound connection whenever it was dialed.  A connection is
\* never closed once Redirect has returned without queueing its request, or
\* once the worker has exited with the request still queued; so neither may
\* happen, and a handle goroutine that has returned has closed what it held.
C4_EveryInboundClosed ==
    /\ \A i \in Callers :
           ~(rdCallers[i].pc = "returned" /\ rdCallers[i].kind = "conn")
    /\ rdWorker = "exited" => rdChan.conn = 0
    /\ \A h \in Handlers :
           rdHandlers[h].pc = "returned" =>
               /\ rdHandlers[h].inbound \in {"nil", "closed"}
               /\ rdHandlers[h].outbound \in {"none", "closed"}

\* C5 as stated: the channel never holds more than 64 requests, and a
\* Redirect call that finds it full does not block.
C5_FullQueueNeverBlocks ==
    /\ ChanLen(rdChan) <= RedirectionChanCap
    /\ \A i \in Callers :
           (rdCallers[i].pc = "select" /\ ChanLen(rdChan) = RedirectionChanCap)
               => RedirectCanReturn(i)

\* C5 as amended: the channel never holds more than 64 requests; while it is
\* full and the context is not cancelled a Redirect call stays in its select
\* (the request is neither queued nor dropped, and nothing is closed), and it
\* can return as soon as the channel has room or the context is cancelled.
C5_FullQueueBlocks ==
    [][ /\ ChanLen(rdChan') <= RedirectionChanCap
        /\ \A i \in Callers :
               rdCallers[i].pc = "select" =>
                   IF ChanLen(rdChan) = RedirectionChanCap /\ ~rdCtxDone
                   THEN rdCallers'[i] = rdCallers[i]
                   ELSE RedirectCanReturn(i) ]_vars

\* C5's case: the channel is full, the context is live, and a Redirect call
\* with a connection waits in its select.
C5_Witness ==
    /\ ChanLen(rdChan) = RedirectionChanCap
    /\ ~rdCtxDone
    /\ \E i \in Callers : rdCallers[i].pc = "select" /\ rdCallers[i].kind = "conn"

-----------------------------------------------------------------------------
(***************************************************************************)
(* Properties of the router                                                *)
(***************************************************************************)

\* the least policy number of a non-empty set of policies: Block before
\* Bypass before Proxy
LeastPolicy(S) == CHOOSE p \in S : \A q \in S : p <= q

\* the policy classes whose domain rule list matches the name
DomainMatching(c, name) == {p \in Policies : matchDomain(c.domains[p], name)}

\* the policy classes whose CIDR list holds the address
CIDRMatching(c, ip) ==
    IF ip = NoIP THEN {} ELSE {p \in Policies : matchIP(c.cidrs[p], ip)}

DomainCallDone == routeCall.done /\ routeCall.address.type = "DomainName"

\* the policy the domain rules give, the default policy when none matches
DomainOrDefault(c, name) ==
    IF DomainMatching(c, name) # {} THEN LeastPolicy(DomainMatching(c, name))
    ELSE c.defaultPolicy

\* C8: under AsIs, Route of a domain destination returns the first policy in
\* the order Block, Bypass, Proxy whose domain rule list matches the name, the
\* default policy when none matches; it resolves nothing and never looks at
\* the CIDR lists.
C8_AsIsDomainRulesOnly ==
    (DomainCallDone /\ client.domainStrategy = AsIs) =>
        /\ routeCall.result.policy = DomainOrDefault(client, routeCall.address.name)
        /\ routeCall.result.resolves = 0
        /\ ~routeCall.result.cidrConsulted

\* C8's case: Bypass and Proxy both match the name, Block does not, and the
\* name resolves to an address of the Block CIDR list; AsIs answers Bypass.
C8_Witness ==
    /\ DomainCallDone /\ client.domainStrategy = AsIs
    /\ DomainMatching(client, routeCall.address.name) = {Bypass, Proxy}
    /\ CIDRMatching(client, routeCall.dns) = {Block}
    /\ routeCall.result.policy = Bypass

\* C9: under IPOnDemand, Route of a domain destination resolves the name
\* first; when the resolved address lies in a CIDR list it returns that policy
\* (Block before Bypass before Proxy) without looking at any domain rule; when
\* the resolution fails or no CIDR list holds the address it continues with
\* the domain rules and then the default policy.
C9_OnDemandCIDRFirst ==
    (DomainCallDone /\ client.domainStrategy = IPOnDemand) =>
        /\ routeCall.result.resolves = 1
        /\ IF CIDRMatching(client, routeCall.dns) # {}
           THEN /\ routeCall.result.policy =
                       LeastPolicy(CIDRMatching(client, routeCall.dns))
                /\ ~routeCall.result.domainConsulted
           ELSE /\ routeCall.result.policy =
                       DomainOrDefault(client, routeCall.address.name)
                /\ routeCall.result.domainConsulted

\* C9's case: the resolved address lies in the Proxy CIDR list only while a
\* Block domain rule matches the name; IPOnDemand answers Proxy.
C9_Witness ==
    /\ DomainCallDone /\ client.domainStrategy = IPOnDemand
    /\ CIDRMatching(client, routeCall.dns) = {Proxy}
    /\ Block \in DomainMatching(client, routeCall.address.name)
    /\ routeCall.result.policy = Proxy
    /\ ~routeCall.result.domainConsulted

\* C10: under IPIfNonMatch, Route of a domain destination looks at the domain
\* rules first and resolves the name only when no domain rule of any policy
\* matches; it then returns the policy of the first CIDR list (Block, Bypass,
\* Proxy) holding the resolved address, and the default policy when the
\* resolution fails or no CIDR list holds it.
C10_IfNonMatchDomainFirst ==
    (DomainCallDone /\ client.domainStrategy = IPIfNonMatch) =>
        /\ routeCall.result.domainConsulted
        /\ IF DomainMatching(client, routeCall.address.name) # {}
           THEN /\ routeCall.result.policy =
                       LeastPolicy(DomainMatching(client, routeCall.address.name))
                /\ routeCall.result.resolves = 0
                /\ ~routeCall.result.cidrConsulted
           ELSE /\ routeCall.result.resolves = 1
                /\ routeCall.result.policy =
                       IF CIDRMatching(client, routeCall.dns) # {}
                       THEN LeastPolicy(CIDRMatching(client, routeCall.dns))
                       ELSE client.defaultPolicy

\* C10's case: no domain rule matches the name, the name resolves into the
\* Block and the Proxy CIDR lists, and the default policy is Bypass;
\* IPIfNonMatch answers Block.
C10_Witness ==
    /\ DomainCallDone /\ client.domainStrategy = IPIfNonMatch
    /\ DomainMatching(client, routeCall.address.name) = {}
    /\ \E p \in Policies : client.domains[p] # <<>>
    /\ CIDRMatching(client, routeCall.dns) = {Block, Proxy}
    /\ client.defaultPolicy = Bypass
    /\ routeCall.result.policy = Block
    /\ routeCall.result.resolves = 1

IPCallDone == routeCall.done /\ routeCall.address.type # "DomainName"

\* a CIDR rule of the address's own family whose prefix bits are the
\* address's leading bits
SameFamilyRuleHolds(rule, ip) ==
    /\ rule.ip.fam = ip.fam
    /\ \A k \in 1..rule.prefix : rule.ip.bits[k] = ip.bits[k]

\* the policy classes with such a rule
FamilyCIDRMatching(c, ip) ==
    {p \in Policies : \E i \in 1..Len(c.cidrs[p]) : SameFamilyRuleHolds(c.cidrs[p][i], ip)}

\* C11: Route of an IP destination returns the first policy, in the order
\* Block, Bypass, Proxy, whose CIDR list holds the address through a rule of
\* the address's own family, and the default policy when there is none; it
\* evaluates no domain rule and resolves nothing, under every strategy.
C11_IPDestinationCIDROnly ==
    IPCallDone =>
        /\ routeCall.result.policy =
               IF FamilyCIDRMatching(client, routeCall.address.ip) # {}
               THEN LeastPolicy(FamilyCIDRMatching(client, routeCall.address.ip))
               ELSE client.defaultPolicy
        /\ routeCall.result.resolves = 0
        /\ ~routeCall.result.domainConsulted
        /\ routeCall.result.cidrConsulted

\* C11's case: an IPv6 destination, the Block list holds only an IPv4 rule
\* whose prefix bits are the destination's leading bits, the Bypass list
\* holds the IPv6 rule of the destination, a domain rule exists and the
\* strategy is IPOnDemand; Route answers Bypass.
C11_Witness ==
    /\ IPCallDone
    /\ routeCall.address.ip.fam = "v6"
    /\ client.domainStrategy = IPOnDemand
    /\ \E p \in Policies : client.domains[p] # <<>>
    /\ client.cidrs[Block] # <<>>
    /\ \A i \in 1..Len(client.cidrs[Block]) :
           /\ client.cidrs[Block][i].ip.fam = "v4"
           /\ CIDRContainsAnyFamily(client.cidrs[Block][i], routeCall.address.ip)
    /\ FamilyCIDRMatching(client, routeCall.address.ip) = {Bypass}
    /\ client.defaultPolicy = Proxy
    /\ routeCall.result.policy = Bypass

\* t equals v, or t ends with "." followed by v
DotSuffix(t, v) == t = v \/ HasSuffix(t, <<".">> \o v)

\* the policy classes with a Domain-type rule whose value is a dot-anchored
\* suffix of the name
DotSuffixMatching(c, name) ==
    {p \in Policies : \E i \in 1..Len(c.domains[p]) :
         c.domains[p][i].type = "Domain" /\ DotSuffix(name, c.domains[p][i].value)}

\* C12: a Domain-type rule with value v matches a name t exactly when t
\* equals v or t ends with "." followed by v: with rule lists of Domain-type
\* rules only, under AsIs, Route returns the first policy that has such a
\* rule for the name, and the default policy when there is none.
C12_DomainRuleAnchoredOnDot ==
    ( /\ DomainCallDone /\ client.domainStrategy = AsIs
      /\ \A p \in Policies : \A i \in 1..Len(client.domains[p]) :
             client.domains[p][i].type = "Domain" )
    => routeCall.result.policy =
           IF DotSuffixMatching(client, routeCall.address.name) # {}
           THEN LeastPolicy(DotSuffixMatching(client, routeCall.address.name))
           ELSE client.defaultPolicy

-----------------------------------------------------------------------------
(***************************************************************************)
(* Properties of the router under concurrent callers                       *)
(***************************************************************************)

SameQuestion(i, j) ==
    /\ rtCalls[i].pc = "returned" /\ rtCalls[j].pc = "returned"
    /\ rtCalls[i].address = rtCalls[j].address
    /\ rtCalls[i].dns = rtCalls[j].dns

C14_DialConnFollowsPolicy ==
    \A i \in RouteCallers :
        (rtCalls[i].pc = "returned" /\ rtCalls[i].op = "DialConn") =>
            LET r == rtCalls[i].result
            IN  /\ r.route.policy = Block => (r.err /\ r.dialed = {})
                /\ r.route.policy = Proxy => r.dialed = {"underlay"}
                /\ r.route.policy = Bypass => r.dialed = {"direct"}

\* C14's case: a DialConn for a name that a Block domain rule matches, with
\* default policy Proxy: it returned an error and dialed nothing.
C14_Witness ==
    \E i \in RouteCallers :
        /\ rtCalls[i].pc = "returned" /\ rtCalls[i].op = "DialConn"
        /\ rtCalls[i].address.type = "DomainName"
        /\ matchDomain(client.domains[Block], rtCalls[i].address.name)
        /\ client.defaultPolicy = Proxy
        /\ rtCalls[i].result.route.policy = Block
        /\ rtCalls[i].result.err
        /\ rtCalls[i].result.dialed = {}

-----------------------------------------------------------------------------
(***************************************************************************)
(* Properties of the router construction                                   *)
(***************************************************************************)

\* a cidr: code that names a network: one slash, an IP literal before it,
\* and after it a number from 0 to the bit width of the literal's family
ValidCIDRCode(code) ==
    /\ Cardinality({k \in 1..Len(code) : code[k] = "/"}) = 1
    /\ LET slash == CHOOSE k \in 1..Len(code) : code[k] = "/"
           ipPart == SubSeq(code, 1, slash - 1)
           prefixPart == SubSeq(code, slash + 1, Len(code))
       IN  /\ ParseIP(ipPart) # NoIP
           /\ ~ParseInt(prefixPart).err
           /\ ParseInt(prefixPart).value >= 0
           /\ ParseInt(prefixPart).value <= IPBits(ParseIP(ipPart).fam)

\* the rule is one NewClient loads (its code is not empty) and is invalid
InvalidRule(r) ==
    /\ r.code # <<>>
    /\ \/ r.prefix = "cidr:" /\ ~ValidCIDRCode(r.code)
       \/ r.prefix \in {"regex:", "regexp:"} /\ ~RegexCompiles(r.code)

\* C15: the construction fails with an error for every invalid rule: when
\* the configuration holds an invalid cidr: rule or a regex:/regexp: rule
\* whose pattern does not compile, NewClient returns an error and no client.
C15_InvalidRuleFailsConstruction ==
    (ncResult.returned /\ \E k \in 1..Len(ncConfig) : InvalidRule(ncConfig[k]))
        => ncResult.err

-----------------------------------------------------------------------------
(***************************************************************************)
(* Properties of the process                                               *)
(***************************************************************************)

\* C16: when the proxy started from the -config handler has run and its Run
\* returned without error, the process exits with code 0; exit code 1 comes
\* only from a fatal configuration or startup error.
C16_CleanRunExitsZero ==
    mnProc.pc = "exited" => (mnProc.exit = 1 <=> ~mnProc.ran)

-----------------------------------------------------------------------------
(***************************************************************************)
(* Properties of the proxy datagram relay                                  *)
(***************************************************************************)

\* the datagrams of a sequence that carry payload
NonEmpty(dgs) == SelectSeq(dgs, LAMBDA dg : dg.n > 0)

\* the copy task of direction d holds a datagram it has read and not
\* delivered: it is at its write, or its write failed and ended the flow
InHand(d) ==
    IF pkCopy[d].pc = "write" \/ pkCopy[d].end = "writeErr" THEN 1 ELSE 0

\* what was written in direction d is, datagram for datagram (payload and
\* metadata) and in order, what was to be forwarded, up to the one in hand
Forwarded(d, toForward) ==
    pkWritten[d] = SubSeq(toForward, 1, Len(toForward) - InHand(d))

\* a read or write error or a zero-length read ends the flow: the worker
\* never ends with a packet connection open, and once a copy task has
\* returned the worker ends and both packet connections are closed
FlowEndsClosed ==
    /\ [](pkWorker.pc = "returned" =>
              (pkWorker.inbound = "closed" /\ pkWorker.outbound \in {"none", "closed"}))
    /\ \A d \in Directions :
           (pkCopy[d].end # "none") ~>
               (pkWorker.pc = "returned" /\ pkWorker.inbound = "closed"
                                         /\ pkWorker.outbound = "closed")

\* C19: in a datagram relay each datagram read from one side is written to
\* the other side with the metadata it was read with, in the order it was
\* read in that direction; only a zero-length read from the inbound side is
\* not forwarded: it ends the flow, as any read or write error does, and both
\* packet connections are closed.
C19_DatagramsForwardedInOrder ==
    /\ [](Forwarded("up", NonEmpty(pkRead["up"])) /\ Forwarded("down", pkRead["down"]))
    /\ FlowEndsClosed

\* C19 as amended: each datagram with payload read from one side is written
\* to the other side with its metadata and in order, the one in hand when the
\* flow ends excepted; a zero-length read from either side is not forwarded
\* and ends the flow, as any read or write error does, and both packet
\* connections are closed.
C19_PayloadForwardedInOrder ==
    /\ [](\A d \in Directions : Forwarded(d, NonEmpty(pkRead[d])))
    /\ FlowEndsClosed

\* C19's case: a datagram with metadata m2 was relayed from the outbound to
\* the inbound side, then a zero-length datagram read from the outbound side
\* ended the flow; the worker has returned and both connections are closed.
C19_Witness ==
    /\ Len(pkRead["down"]) = 2
    /\ pkRead["down"][1].n > 0 /\ pkRead["down"][1].metadata = "m2"
    /\ pkRead["down"][2].n = 0
    /\ pkWritten["down"] = <<pkRead["down"][1]>>
    /\ pkCopy["down"].end = "zero"
    /\ pkWorker.pc = "returned"
    /\ pkWorker.inbound = "closed" /\ pkWorker.outbound = "closed"

-----------------------------------------------------------------------------
(***************************************************************************)
(* Properties of the http server's CONNECT handling                        *)
(***************************************************************************)

\* C20: for a CONNECT request the 200 Connection established response is
\* written to the client before the connection is sent to the accept queue,
\* and the delivered connection carries the request host as its Metadata
\* address; when the host is invalid or the response cannot be written, the
\* client connection is closed and never delivered.
C20_ConnectAnsweredThenDelivered ==
    /\ [][ \A k \in HttpTasks :
               (htTasks[k].method = "CONNECT" /\ htTasks[k].conn # "delivered"
                    /\ htTasks'[k].conn = "delivered")
               => /\ htTasks[k].wrote200
                  /\ htTasks'[k].metadata = htTasks[k].host ]_vars
    /\ [](\A k \in HttpTasks :
             (htTasks[k].method = "CONNECT" /\ htTasks[k].pc = "returned") =>
                 IF NewAddressFromAddr(htTasks[k].host).err \/ ~htTasks[k].wrote200
                 THEN htTasks[k].conn = "closed"
                 ELSE /\ htTasks[k].conn = "delivered"
                      /\ htTasks[k].metadata = htTasks[k].host)

\* C20's case: one task has delivered the connection of an answered CONNECT
\* to h2:80 with that address as metadata; another has closed the connection
\* of a CONNECT to a valid host whose response could not be written.
C20_Witness ==
    \E k, j \in HttpTasks :
        /\ htTasks[k].method = "CONNECT" /\ htTasks[k].conn = "delivered"
        /\ htTasks[k].wrote200 /\ htTasks[k].metadata = "h2:80"
        /\ htTasks[j].method = "CONNECT" /\ htTasks[j].pc = "returned"
        /\ htTasks[j].host = "h1:443" /\ ~htTasks[j].wrote200
        /\ htTasks[j].conn = "closed"

-----------------------------------------------------------------------------
(***************************************************************************)
(* Properties of the http server's handling of the other methods           *)
(***************************************************************************)

OtherTask(k) == htTasks[k].method = "GET"

\* C21: each request of the other methods on one client stream is sent to
\* the accept queue as exactly one tunnel connection, whose Metadata address
\* is that of the request's own Host (with port 80 when it has none); once
\* the response is written back that tunnel connection is closed and the
\* client stream stays open; the next request on the stream is served the
\* same way; the client stream is closed only when the task returns.
C21_RequestsServedOneByOne ==
    /\ [][ \A k \in HttpTasks :
               /\ (OtherTask(k) /\ htTasks'[k].sends # htTasks[k].sends
                        /\ htTasks'[k].pc # "free")
                    => \/ /\ htTasks[k].sends = 0 /\ htTasks'[k].sends = 1
                          /\ htTasks'[k].tunnel = "open"
                          /\ htTasks'[k].metadata = OtherAddress(htTasks[k].host)
                       \/ /\ htTasks'[k].sends = 0
                          /\ htTasks'[k].reqNo = htTasks[k].reqNo + 1
               /\ (OtherTask(k) /\ htTasks'[k].reqNo = htTasks[k].reqNo + 1)
                    => /\ htTasks[k].sends = 1
                       /\ htTasks[k].tunnel = "closed"
                       /\ htTasks[k].conn = "open" /\ htTasks'[k].conn = "open"
               /\ (OtherTask(k) /\ htTasks[k].conn = "open"
                        /\ htTasks'[k].conn = "closed")
                    => htTasks'[k].pc = "returned" ]_vars
    /\ [](\A k \in HttpTasks :
             OtherTask(k) =>
                 /\ htTasks[k].metadata = OtherAddress(htTasks[k].host)
                 /\ htTasks[k].pc \in {"sendOther", "exchange", "next"}
                        => htTasks[k].conn = "open"
                 /\ htTasks[k].pc = "next"
                        => htTasks[k].sends = 1 /\ htTasks[k].tunnel = "closed"
                 /\ htTasks[k].pc = "exchange"
                        => htTasks[k].sends = 1 /\ htTasks[k].tunnel = "open"
                 /\ htTasks[k].pc = "sendOther" => htTasks[k].sends = 0)

\* C21's case: on one stream the second request, with a Host without port,
\* has been served on its own tunnel connection to port 80, that connection
\* is closed and the stream is open; on another the first request, with a
\* Host with a port, is delivered and in exchange.
C21_Witness ==
    \E k, j \in HttpTasks :
        /\ OtherTask(k) /\ htTasks[k].reqNo = 2 /\ htTasks[k].pc = "next"
        /\ htTasks[k].host = "bad" /\ htTasks[k].metadata = "bad:80"
        /\ htTasks[k].tunnel = "closed" /\ htTasks[k].conn = "open"
        /\ OtherTask(j) /\ htTasks[j].reqNo = 1 /\ htTasks[j].pc = "exchange"
        /\ htTasks[j].metadata = "h1:443" /\ htTasks[j].tunnel = "open"

-----------------------------------------------------------------------------
(***************************************************************************)
(* Properties of the slog adapter                                          *)
(***************************************************************************)

\* the log.LogLevel a message of that severity counts as: Debug and Trace
\* messages appear under AllLevel only
SeverityLogLevel(sev) ==
    CASE sev \in {"Trace", "Debug"} -> AllLevel
      [] sev = "Info" -> InfoLevel
      [] sev = "Warn" -> WarnLevel
      [] sev = "Error" -> ErrorLevel
      [] sev = "Fatal" -> FatalLevel

\* shouldLogAtLevel(messageLevel, adapterLevel)
shouldLogAtLevel(messageLevel, adapterLevel) ==
    IF adapterLevel = OffLevel THEN FALSE
    ELSE IF adapterLevel = AllLevel THEN TRUE
    ELSE messageLevel >= adapterLevel

\* the call that returned last is a log call on adapter a whose message is
\* not the empty string
LoggedOn(a) == lgLast.op = "log" /\ lgLast.adapter = a /\ lgLast.text # <<>>

\* C23: for every level L of the adapter and every severity M, a log call
\* with a message writes a record iff L is not Off and L is All or M >= L,
\* Debug and Trace counting as All-only; the plain, formatted, structured
\* and context methods all filter so.
C23_LevelFiltering ==
    LoggedOn("root") =>
        (lgLast.wrote <=> shouldLogAtLevel(SeverityLogLevel(lgLast.sev), lgLogLevel))

\* C23's case: under WarnLevel, set by an earlier call, a formatted Warn call
\* is the third call and wrote the first record.
C23_Witness ==
    /\ LoggedOn("root") /\ lgLogLevel = WarnLevel
    /\ lgLast.kind = "formatted" /\ lgLast.sev = "Warn" /\ lgLast.wrote
    /\ lgOps = 3 /\ lgSinks["buf1"] = <<3>>

\* C24: a level change takes effect at once: the first log call on the
\* adapter after SetLogLevel(L) has returned is filtered by L, and the
\* enabled cache holds no answer computed under an earlier level.
C24_LevelChangeImmediate ==
    /\ [][ (lgLast.op = "SetLogLevel" /\ lgOps' = lgOps + 1
                /\ lgLast'.op = "log" /\ lgLast'.adapter = "root"
                /\ lgLast'.text # <<>>)
            => (lgLast'.wrote <=>
                   shouldLogAtLevel(SeverityLogLevel(lgLast'.sev), lgLast.level)) ]_vars
    /\ [](\A l \in SlogLevels :
             lgCache["root"][l] # "none" =>
                 (lgCache["root"][l] = "yes"
                     <=> HandlerEnabled(mapLogLevelToSlog(lgLogLevel), l)))

\* C24's case: SetLogLevel(AllLevel) has returned and a Debug call after it,
\* the third call, wrote the first record and is cached as enabled.
C24_Witness ==
    /\ LoggedOn("root") /\ lgLast.kind = "plain" /\ lgLast.sev = "Debug"
    /\ lgLogLevel = AllLevel /\ lgLast.wrote
    /\ lgOps = 3 /\ lgSinks["buf1"] = <<3>>
    /\ lgCache["root"][LevelDebug] = "yes"

\* C26: a log call on an adapter derived by WithAttrs or WithGroup writes a
\* record iff the current level of the parent enables its severity,
\* whatever SetLogLevel calls and log calls came before.
C26_DerivedFollowParentLevel ==
    \A a \in {"attrs", "group"} :
        LoggedOn(a) =>
            (lgLast.wrote <=> shouldLogAtLevel(SeverityLogLevel(lgLast.sev), lgLogLevel))

\* C28: Info, Warn, Error and Infof, Warnf, Errorf write a record to the
\* output for every message string, the empty one included, and every
\* format string and operand, when the level enables the severity.
C28_AnyStringIsLogged ==
    (/\ lgLast.op = "log" /\ lgLast.adapter = "root"
     /\ lgLast.kind \in {"plain", "formatted"}
     /\ lgLast.sev \in {"Info", "Warn", "Error"}
     /\ shouldLogAtLevel(SeverityLogLevel(lgLast.sev), lgLogLevel))
    => lgLast.wrote /\ lgLast.to = lgOutput

\* every goroutine has returned from its call on the root adapter
Quiescent == \A t \in LogThreads : lgThreads[t].pc = "idle"

\* C25: whatever way SetLogLevel calls interleave with log calls and
\* enabled-checks on the same adapter, once all of them have returned the
\* enabled cache holds no entry that disagrees with the current level, so
\* that a later log call is filtered by the level of the last SetLogLevel.
C25_CacheAgreesWhenQuiescent ==
    Quiescent =>
        \A l \in SlogLevels :
            lgCache["root"][l] # "none" =>
                (lgCache["root"][l] = "yes" <=> HandlerEnabled(lgLevelVar, l))

\* sequence p is the beginning of sequence q
IsPrefix(p, q) == Len(p) <= Len(q) /\ SubSeq(q, 1, Len(p)) = p

\* this step is a call of that kind on the root adapter
RootCall(op) == lgOps' = lgOps + 1 /\ lgLast'.op = op

\* C27: SetOutput(w) redirects the output: every record written after it
\* goes to w, a writer that accepts it, and to no other writer; what the
\* writers received before stays as it is; SetOutput leaves the level and
\* the format unchanged, and SetFormat leaves the level unchanged.
C27_SetOutputRedirects ==
    [][ /\ RootCall("SetOutput") =>
               /\ lgOutput' = lgLast'.to
               /\ UNCHANGED <<lgSinks, lgLogLevel, lgLevelVar, lgFormat>>
        /\ RootCall("SetFormat") => UNCHANGED <<lgLogLevel, lgLevelVar, lgSinks>>
        /\ (RootCall("log") /\ lgLast'.wrote /\ Accepts(lgOutput)) =>
               /\ lgSinks'[lgOutput] = Append(lgSinks[lgOutput], lgOps')
               /\ \A w \in DOMAIN lgSinks \ {lgOutput} : lgSinks'[w] = lgSinks[w]
        /\ \A w \in DOMAIN lgSinks : IsPrefix(lgSinks[w], lgSinks'[w]) ]_vars

\* C27's case: the first record went to buf1, then SetOutput(buf2), and the
\* third call wrote its record to buf2 only.
C27_Witness ==
    /\ lgOutput = "buf2" /\ lgOps = 3
    /\ lgSinks["buf1"] = <<1>> /\ lgSinks["buf2"] = <<3>> /\ lgSinks["stderr"] = <<>>
    /\ lgLast.op = "log" /\ lgLast.wrote

\* where the claim says a Write goes: to the primary; to the fallback when
\* the primary is absent or failed and the fallback is another writer; else
\* nowhere
ClaimedDestination ==
    IF lgPrimary # "nil" /\ Accepts(lgPrimary) THEN lgPrimary
    ELSE IF lgFallback \notin {"nil", lgPrimary} /\ Accepts(lgFallback) THEN lgFallback
    ELSE "discarded"

\* the failures the claim says are reported to the error handler
ClaimedReports ==
    (IF lgPrimary # "nil" /\ ~Accepts(lgPrimary)
     THEN <<"primary writer failed">> ELSE <<>>)
    \o (IF ClaimedDestination # lgPrimary /\ lgFallback \notin {"nil", lgPrimary}
            /\ ~Accepts(lgFallback)
        THEN <<"fallback writer failed">> ELSE <<>>)

\* C29: a failing sink never propagates: the Write of the FallbackWriter
\* returns no error; the record goes to the primary, to the fallback only
\* when the primary is absent or failed and the fallback is another writer,
\* and is discarded when both fail; each failure is reported to the error
\* handler; and once SetOutput has set a writer that works, the next record
\* is written to it.
C29_SinkFailureNeverPropagates ==
    [][ /\ (RootCall("log") /\ lgLast'.wrote) =>
               /\ ~lgLast'.err
               /\ lgLast'.to = ClaimedDestination
               /\ lgSinks' = SinksAfter(lgSinks, ClaimedDestination, lgOps')
               /\ lgReports' = lgReports \o ClaimedReports
        /\ (RootCall("log") /\ lgLast'.wrote /\ lgLast.op = "SetOutput"
                /\ Accepts(lgLast.to)) =>
               lgLast'.to = lgLast.to ]_vars

\* C29's case: the primary and the fallback are two failing writers; the
\* third call's record was discarded, both failures were reported and no
\* error was returned.
C29_Witness ==
    /\ lgPrimary = "failing" /\ lgFallback = "failing2" /\ lgOps = 3
    /\ lgLast.op = "log" /\ lgLast.wrote /\ lgLast.to = "discarded" /\ ~lgLast.err
    /\ lgReports = <<"primary writer failed", "fallback writer failed">>

-----------------------------------------------------------------------------
(***************************************************************************)
(* Properties of the default logger of the process                         *)
(***************************************************************************)

\* the threshold the configuration documents for log_level: 0 debug, 1 info,
\* 2 warn, 3 error, 4 fatal, 5 off, as a rank; and the rank of a severity
SeverityRank(sev) ==
    CASE sev = "Debug" -> 0
      [] sev = "Info" -> 1
      [] sev = "Warn" -> 2
      [] sev = "Error" -> 3

\* C30: log_level 0..5 selects the thresholds debug, info, warn, error,
\* fatal, off in that order: a record is emitted iff its severity is at or
\* above the threshold; at 4 error records are not emitted any more and at 5
\* nothing is.
C30_ConfigLevelSelectsThreshold ==
    \A sev \in SlogSeverities :
        (cfLogLevel \in 0..5 /\ cfEmitted[sev] # "untried") =>
            (cfEmitted[sev] = "yes" <=> SeverityRank(sev) >= cfLogLevel)

-----------------------------------------------------------------------------
(***************************************************************************)
(* Properties of the logger registry                                       *)
(***************************************************************************)

\* the logger the last RegisterLogger call named; the EmptyLogger of the
\* package before any call
LastRegistered ==
    IF rgRegistered = <<>> THEN "empty" ELSE rgRegistered[Len(rgRegistered)]

\* C31: the global log functions dispatch to the most recently registered
\* logger: a global call is made on the logger the last RegisterLogger named
\* and changes the level, the writer and the output of no other logger; an
\* EmptyLogger writes to no output whatever writer and level it was given,
\* and its WithAttrs and WithGroup return the logger itself.
C31_GlobalsUseLastRegistered ==
    [][ /\ rgLogger' = LastRegistered'
        /\ rgLast'.op \notin {"none", "RegisterLogger"} =>
              /\ rgLast'.target = LastRegistered
              /\ \A l \in LevelLoggers \ {LastRegistered} : rgLevel'[l] = rgLevel[l]
              /\ LastRegistered # "adapter" => rgOutput' = rgOutput
              /\ \A w \in DOMAIN rgSinks :
                    \/ rgSinks'[w] = rgSinks[w]
                    \/ rgSinks'[w] = Append(rgSinks[w], LastRegistered)
        /\ \A w \in DOMAIN rgSinks : \A k \in 1..Len(rgSinks'[w]) :
              ~IsEmptyLogger(rgSinks'[w][k])
        /\ (rgLast'.op \in {"WithAttrs", "WithGroup"} /\ IsEmptyLogger(rgLast'.target)) =>
              rgLast'.result = rgLast'.target ]_vars

\* C31's case: a SlogAdapter was registered and given a buffer, then an
\* EmptyLogger was registered; the global Error that followed was made on the
\* EmptyLogger and wrote nothing.
C31_Witness ==
    /\ rgRegistered = <<"adapter", "custom">>
    /\ rgOutput = "buf1"
    /\ rgLast.op = "Log" /\ rgLast.sev = "Error"
    /\ rgLast.target = "custom" /\ ~rgLast.wrote
    /\ \A w \in DOMAIN rgSinks : rgSinks[w] = <<>>

-----------------------------------------------------------------------------
(***************************************************************************)
(* Properties of the simplesocks accept loop                               *)
(***************************************************************************)

\* where a connection with that header ends
HeaderPlace(header) ==
    CASE header = "Connect" -> "connChan"
      [] header = "Associate" -> "packetChan"
      [] OTHER -> "closed"

\* C32: every connection the simplesocks server accepts ends in exactly one
\* of three places: the conn queue when its command is Connect, the packet
\* queue when it is Associate, closed when the header cannot be read or the
\* command is unknown; until then the accept loop holds it at the send to
\* that queue; and closing a connection leaves the accept loop accepting.
C32_AcceptedGoesToOnePlace ==
    [][ ssLast' # ssLast =>
          /\ ssLast'.header \in Headers
          /\ ssLast'.place \in {"acceptLoop", HeaderPlace(ssLast'.header)}
          /\ ssLast'.place = "acceptLoop" =>
                /\ ssLast'.header \in {"Connect", "Associate"}
                /\ ssLoop' = IF ssLast'.header = "Connect" THEN "sendConn"
                             ELSE "sendPacket"
                /\ ssConnChan' = ssConnChan /\ ssPacketChan' = ssPacketChan
          /\ ssLast'.place = "connChan" =>
                ssConnChan' = ssConnChan + 1 /\ ssPacketChan' = ssPacketChan
          /\ ssLast'.place = "packetChan" =>
                ssPacketChan' = ssPacketChan + 1 /\ ssConnChan' = ssConnChan
          /\ ssLast'.place = "closed" =>
                /\ ssLoop' = "accept"
                /\ ssConnChan' = ssConnChan /\ ssPacketChan' = ssPacketChan ]_vars

\* C32's case: a Connect and an Associate connection are in their queues, and
\* the connection accepted after them had an unknown command: it was closed
\* and the loop is accepting again.
C32_Witness ==
    /\ ssLast = [header |-> "unknown", place |-> "closed"]
    /\ ssLoop = "accept"
    /\ ssConnChan = 1 /\ ssPacketChan = 1

-----------------------------------------------------------------------------
(***************************************************************************)
(* Properties of matchDomain and of the adapter's conversions              *)
(***************************************************************************)

\* the rule at position i of the list matches the target
RuleMatches(list, target, i) == DomainRuleStep(list[i], target) = "match"

\* C33: matchDomain(list, t) is true iff at least one rule of the list
\* matches t, whatever the position of that rule and whatever rules that do
\* not match come before it, rules of an unknown type and Regex rules whose
\* pattern does not compile included.
C33_MatchIffSomeRuleMatches ==
    mdCall.done =>
        (mdCall.result <=>
            \E i \in 1..Len(mdCall.list) : RuleMatches(mdCall.list, mdCall.target, i))

\* C39: the two level mappings agree: mapLogLevelToSlog is strictly
\* increasing over All < Info < Warn < Error < Fatal < Off and
\* mapSlogLevelToLogLevel gives back each of the six levels;
\* ParseLogFormat(f.String()) is f for the three formats and every other
\* string parses as the text format.
C39_ConversionsRoundTrip ==
    /\ (lvCall.slog # NoConversion /\ lvCall.level \in LogLevels) =>
          /\ lvCall.back = lvCall.level
          /\ (lvCall.other \in LogLevels /\ lvCall.level < lvCall.other) =>
                lvCall.slog < lvCall.slogOther
    /\ (lvCall.string # "none" /\ lvCall.format \in LogFormats) =>
          lvCall.reparsed = lvCall.format
    /\ (lvCall.parsed # NoConversion
            /\ lvCall.name \notin {"text", "json", "colored"}) =>
          lvCall.parsed = TextFormat

\* C39's case: Fatal and Off were mapped to 12 and 100 and Fatal came back;
\* the colored format was written as "colored" and parsed back; "JSON" was
\* parsed as the text format.
C39_Witness ==
    /\ lvCall.level = FatalLevel /\ lvCall.other = OffLevel
    /\ lvCall.slog = LevelFatal /\ lvCall.slogOther = LevelDisabled
    /\ lvCall.back = FatalLevel
    /\ lvCall.format = ColoredFormat /\ lvCall.string = "colored"
    /\ lvCall.reparsed = ColoredFormat
    /\ lvCall.name = "JSON" /\ lvCall.parsed = TextFormat

-----------------------------------------------------------------------------
(***************************************************************************)
(* Properties of the router's DialPacket and of the tls client's DialConn  *)
(***************************************************************************)

\* C36: router DialPacket acquires its resources atomically: when it has
\* returned an error, no socket and no packet connection it opened is open
\* and no packet loop was started.
C36_DialPacketAllOrNothing ==
    \A i \in PacketDialers :
        (dpCalls[i].pc = "returned" /\ dpCalls[i].result = "error") =>
            /\ dpCalls[i].directConn # "open"
            /\ dpCalls[i].proxy # "open"
            /\ ~dpCalls[i].loop

\* C37: tls DialConn dials the underlay with no address whatever address
\* the layer above gave, and when the handshake fails it returns an error
\* and the connection it dialed from the underlay is not left open.
C37_HandshakeFailureClosesConn ==
    \A i \in TLSDialers :
        /\ tlCalls[i].dialed \in {"none", "nil"}
        /\ (tlCalls[i].pc = "returned" /\ tlCalls[i].library # "none"
                /\ tlCalls[i].result # "conn") =>
              /\ tlCalls[i].result = "error"
              /\ tlCalls[i].conn # "open"

-----------------------------------------------------------------------------
(***************************************************************************)
(* Properties of the adapter's writer settings                             *)
(***************************************************************************)

\* C38: the writer settings are independent: SetErrorHandler changes the
\* error handler only and leaves the output, the primary and the fallback
\* writer as they are; SetOutput leaves the fallback writer and the error
\* handler as they are; SetFallbackWriter leaves the output and the primary
\* as they are; so a failing primary is diverted to the fallback set last.
C38_WriterSettingsIndependent ==
    [][ /\ RootCall("SetErrorHandler") =>
              UNCHANGED <<lgOutput, lgPrimary, lgFallback>>
        /\ RootCall("SetOutput") =>
              UNCHANGED <<lgFallback, lgErrorHandler>>
        /\ RootCall("SetFallbackWriter") =>
              /\ lgFallback' = lgLast'.to
              /\ UNCHANGED <<lgOutput, lgPrimary, lgErrorHandler>> ]_vars

-----------------------------------------------------------------------------
(***************************************************************************)
(* Properties of the connections the http server accepts                   *)
(***************************************************************************)

\* C34: every connection the http server accepts is in the end delivered
\* through AcceptConn or closed: once the goroutine that handles it has
\* returned, the connection was handed to the queue or is closed; this holds
\* too for a connection whose first bytes are no valid HTTP request.
C34_AcceptedDeliveredOrClosed ==
    \A k \in HttpTasks :
        htTasks[k].pc = "returned" => htTasks[k].conn \in {"delivered", "closed"}

-----------------------------------------------------------------------------
(***************************************************************************)
(* Properties of the copy tasks of a relay                                 *)
(***************************************************************************)

=============================================================================
